---- MODULE Spec2Model ----
(***************************************************************************)
(* Model of the template composition engine of create-velocity-astro:      *)
(*   - the dependency resolver        (src/src/registry/resolver.ts)       *)
(*   - the route-table mutation engine (src/src/features/pages.ts)         *)
(*   - the scaffold pipeline           (src/src/scaffold.ts)               *)
(*                                                                         *)
(* Paths are sequences of path segments, so that "is under directory d"    *)
(* is the prefix relation.  Identifiers are sequences of atoms, so that    *)
(* String.includes is the contiguous-subsequence relation.                 *)
(***************************************************************************)
EXTENDS Integers, Sequences, FiniteSets, TLC

VARIABLES
    rreg,       \* resolver run: the registry handed to resolveDependencies
    rsel,       \* resolver run: the selection handed to resolveDependencies
    rres,       \* resolver run: the value resolveDependencies produced
    rpc,        \* resolver run: "call" before the call, "done" after it
    opts,       \* the ScaffoldOptions of the project
    fs,         \* the working tree: [files: path -> content, dirs: set of paths]
    gen,        \* the last generatePages call: its number, arguments and result
    env,        \* what scaffold finds outside the tree: template and overlays
    pc,         \* scaffold: the stage to run next, "done", "raised" or "idle"
    log,        \* scaffold: the stages that have run, in order
    failed,     \* scaffold: the stages in which an operation has thrown
    ui,         \* front end: the flags of the command line and the answers typed
    cli,        \* front end: where it stands and what parsePageNames returned
    cachedRegistry,  \* fetcher.ts: the module-level cache, Null or a registry
    net         \* fetcher.ts: calls made, remote requests sent, last outcome

vars == <<rreg, rsel, rres, rpc, opts, fs, gen, env, pc, log, failed,
          ui, cli, cachedRegistry, net>>

(***************************************************************************)
(* Bounds                                                                  *)
(***************************************************************************)
\* longest explicit request list (selection.components) that is enumerated
MaxReq == 2
\* depth of the call stack available to the recursion of resolve()
MaxStack == 5
\* longest page list handed to one generatePages call
MaxPages == 2
\* number of generatePages calls made on one working tree
MaxCalls == 2

(***************************************************************************)
(* Generic helpers on sequences (JS arrays and insertion-ordered Sets)     *)
(***************************************************************************)
Range(s) == {s[i] : i \in 1..Len(s)}

InSeq(x, s) == \E i \in 1..Len(s) : s[i] = x

NoDup(s) == \A i, j \in 1..Len(s) : s[i] = s[j] => i = j

\* an array holding the elements of S in some fixed order
RECURSIVE SetToSeq(_)
SetToSeq(S) ==
    IF S = {} THEN <<>>
    ELSE LET x == CHOOSE y \in S : TRUE
         IN  <<x>> \o SetToSeq(S \ {x})

SeqsUpTo(S, n) == UNION {[1..k -> S] : k \in 0..n}

\* variant of SetAdd: Array.prototype.push, no membership test
SetAdd_push(s, x) == Append(s, x)

\* Set.prototype.add on an insertion-ordered set
SetAdd(s, x) == IF InSeq(x, s) THEN s ELSE Append(s, x)

RECURSIVE SetAddAll(_, _)
SetAddAll(s, xs) ==
    IF xs = <<>> THEN s
    ELSE SetAddAll(SetAdd(s, Head(xs)), Tail(xs))

(***************************************************************************)
(* The working tree and the node:fs primitives the engine uses             *)
(***************************************************************************)
\* d is p or an ancestor directory of p
IsPrefix(d, p) == Len(d) <= Len(p) /\ SubSeq(p, 1, Len(d)) = d

\* the directories above p, outermost first excluded the root
Ancestors(p) == {SubSeq(p, 1, n) : n \in 1..(Len(p) - 1)}

EmptyFs == [files |-> <<>>, dirs |-> {}]

\* existsSync
existsSync(t, p) == p \in DOMAIN t.files \/ p \in t.dirs

\* mkdirSync(p, { recursive: true })
mkdirSync(t, p) == [t EXCEPT !.dirs = @ \cup Ancestors(p) \cup {p}]

\* the function fm restricted to the paths in S
Restrict(fm, S) == [q \in S |-> fm[q]] @@ <<>>

\* writeFileSync / copyFileSync into an existing directory
writeFileSync(t, p, content) ==
    [t EXCEPT !.files = (p :> content) @@ @]

\* rmSync(p, { recursive: true, force: true })
rmSync(t, p) ==
    [files |-> Restrict(t.files, {f \in DOMAIN t.files : ~IsPrefix(p, f)}),
     dirs |-> {d \in t.dirs : ~IsPrefix(p, d)}]

\* the entries of directory d (readdirSync), as full paths
readdirSync(t, d) ==
    {p \in (DOMAIN t.files) \cup t.dirs : Len(p) = Len(d) + 1 /\ IsPrefix(d, p)}

\* a file content: where it came from and, for the files the engine edits or
\* writes, its text as a sequence of tokens
File(src, body) == [src |-> src, body |-> body]

(***************************************************************************)
(* Registry data (registry/types.ts)                                       *)
(***************************************************************************)
\* ids of the modules the registries of the model declare, in key order
RegOrder == <<"button", "contact-form", "hero">>
RegIds == Range(RegOrder)
\* an id no registry declares
GhostId == "does-not-exist"
AllIds == RegIds \cup {GhostId}

Categories == {"ui", "patterns", "hero"}

CategoryOf(id) ==
    CASE id = "button" -> "ui"
      [] id = "contact-form" -> "patterns"
      [] id = "hero" -> "hero"

P_Button == <<"src", "components", "ui", "Button.astro">>
P_UiIndex == <<"src", "components", "ui", "index.ts">>
P_Input == <<"src", "components", "ui", "form", "Input", "Input.astro">>
P_ContactForm == <<"src", "components", "patterns", "ContactForm.astro">>
P_Hero == <<"src", "components", "hero", "Hero.astro">>
P_Cn == <<"src", "lib", "cn.ts">>
P_Icons == <<"src", "lib", "icons.ts">>

\* ComponentEntry.files
FilesOf(id) ==
    CASE id = "button" -> <<P_Button, P_UiIndex>>
      [] id = "contact-form" -> <<P_ContactForm, P_UiIndex>>
      [] id = "hero" -> <<P_Hero>>

\* ComponentEntry.dependencies.utilities ("validators" is in no registry)
UtilsOf(id) ==
    CASE id = "button" -> <<"cn">>
      [] id = "contact-form" -> <<"cn", "validators">>
      [] id = "hero" -> <<"icons">>

\* ComponentRegistry.utilities
RegUtilities ==
    [u \in {"cn", "icons"} |->
        IF u = "cn"
        THEN [files |-> <<P_Cn>>, npm |-> <<"clsx", "tailwind-merge">>]
        ELSE [files |-> <<P_Icons>>, npm |-> <<"clsx">>]]

\* a ComponentRegistry whose module-dependency arrays are given by deps
MkRegistry(deps) ==
    [order |-> RegOrder,
     components |-> [id \in RegIds |->
         [category |-> CategoryOf(id),
          files |-> FilesOf(id),
          dependencies |-> [utilities |-> UtilsOf(id),
                            components |-> deps[id]]]],
     utilities |-> RegUtilities]

\* the registries of the model: every dependency relation over RegIds, and
\* for "button" possibly one more dependency on an id that is not declared
Registries ==
    {MkRegistry([id \in RegIds |->
                    SetToSeq(d[id]) \o (IF id = "button" /\ g
                                        THEN <<GhostId>> ELSE <<>>)]) :
        d \in [RegIds -> SUBSET RegIds], g \in BOOLEAN}

\* ComponentSelection
Selections ==
    {[mode |-> "none"], [mode |-> "all"]}
    \cup {[mode |-> "categories", categories |-> c] : c \in SUBSET Categories}
    \cup {[mode |-> "individual", components |-> r] : r \in SeqsUpTo(AllIds, MaxReq)}

(***************************************************************************)
(* resolveDependencies (registry/resolver.ts)                              *)
(***************************************************************************)
\* the accumulators of one call; expanded records each pass through the
\* body of resolve (lines 55-70), overflow the exhaustion of the call stack
EmptyAcc ==
    [resolved |-> <<>>, utilities |-> <<>>, files |-> <<>>,
     expanded |-> <<>>, overflow |-> FALSE]

\* the elements of xs that satisfy keep, in order (Array.prototype.filter)
RECURSIVE FilterSeq(_, _)
FilterSeq(xs, keep) ==
    IF xs = <<>> THEN <<>>
    ELSE (IF Head(xs) \in keep THEN <<Head(xs)>> ELSE <<>>)
         \o FilterSeq(Tail(xs), keep)

\* the switch on selection.mode
requestedComponents(selection, registry) ==
    CASE selection.mode = "all" -> registry.order
      [] selection.mode = "categories" ->
            FilterSeq(registry.order,
                      {id \in DOMAIN registry.components :
                          registry.components[id].category \in selection.categories})
      [] selection.mode = "individual" -> selection.components
      [] OTHER -> <<>>

\* variant of notFound: an id the registry does not declare is an error
notFound_throw(acc) == [acc EXCEPT !.overflow = TRUE]

\* if (!component) { console.warn(...); return; }
notFound(acc) == acc

RECURSIVE resolve(_, _, _, _)
RECURSIVE resolveEach(_, _, _, _)

\* variant of resolve: the loop over dependencies.components is left out
resolve_noDeps(registry, componentId, acc, depth) ==
    IF acc.overflow THEN acc
    ELSE IF depth > MaxStack THEN [acc EXCEPT !.overflow = TRUE]
    ELSE IF InSeq(componentId, acc.resolved) THEN acc
    ELSE IF componentId \notin DOMAIN registry.components THEN acc
    ELSE LET component == registry.components[componentId]
         IN  [acc EXCEPT
                !.utilities = SetAddAll(@, component.dependencies.utilities),
                !.files = SetAddAll(@, component.files),
                !.resolved = SetAdd(@, componentId),
                !.expanded = Append(@, componentId)]

\* resolve(componentId), with the depth of the call and the accumulators
resolve(registry, componentId, acc, depth) ==
    IF acc.overflow THEN acc
    ELSE IF depth > MaxStack THEN [acc EXCEPT !.overflow = TRUE]
    ELSE IF InSeq(componentId, acc.resolved) THEN acc
    ELSE IF componentId \notin DOMAIN registry.components THEN notFound(acc)
    ELSE LET component == registry.components[componentId]
             a1 == resolveEach(registry, component.dependencies.components,
                               acc, depth + 1)
         IN  IF a1.overflow THEN a1
             ELSE [a1 EXCEPT
                     !.utilities = SetAddAll(@, component.dependencies.utilities),
                     !.files = SetAddAll(@, component.files),
                     !.resolved = SetAdd(@, componentId),
                     !.expanded = Append(@, componentId)]

\* for (const id of ids) resolve(id)
resolveEach(registry, ids, acc, depth) ==
    IF ids = <<>> \/ acc.overflow THEN acc
    ELSE resolveEach(registry, Tail(ids),
                     resolve(registry, Head(ids), acc, depth), depth)

RECURSIVE collectUtilities(_, _, _)

\* variant of collectUtilities: the utility bundles are not expanded
collectUtilities_skipped(registry, utils, out) == out

\* the loop over the collected utilities (lines 78-89)
collectUtilities(registry, utils, out) ==
    IF utils = <<>> THEN out
    ELSE LET u == Head(utils)
             o1 == IF u \in DOMAIN registry.utilities
                   THEN [files |-> SetAddAll(out.files, registry.utilities[u].files),
                         npmPackages |-> SetAddAll(out.npmPackages,
                                                   registry.utilities[u].npm)]
                   ELSE out
         IN  collectUtilities(registry, Tail(utils), o1)

\* the value of a call: threw is TRUE when the recursion exhausted the stack
\* (RangeError), otherwise the four lists are the returned ResolvedComponents
resolveDependencies(selection, registry) ==
    IF selection.mode = "none"
    THEN [threw |-> FALSE, components |-> <<>>, utilities |-> <<>>,
          files |-> <<>>, npmPackages |-> <<>>, expanded |-> <<>>]
    ELSE LET acc == resolveEach(registry,
                                requestedComponents(selection, registry),
                                EmptyAcc, 1)
             out == collectUtilities(registry, acc.utilities,
                                     [files |-> acc.files, npmPackages |-> <<>>])
         IN  IF acc.overflow
             THEN [threw |-> TRUE, components |-> <<>>, utilities |-> <<>>,
                   files |-> <<>>, npmPackages |-> <<>>, expanded |-> acc.expanded]
             ELSE [threw |-> FALSE, components |-> acc.resolved,
                   utilities |-> acc.utilities, files |-> out.files,
                   npmPackages |-> out.npmPackages, expanded |-> acc.expanded]

NoResult ==
    [threw |-> FALSE, components |-> <<>>, utilities |-> <<>>,
     files |-> <<>>, npmPackages |-> <<>>, expanded |-> <<>>]

(***************************************************************************)
(* Page names, route ids and titles (features/pages.ts)                    *)
(***************************************************************************)
\* A slug is a sequence of atoms: words and the separator "-".  A route id
\* is a sequence of words and "_".  Substring tests work on atoms.
N_about == <<"about">>
N_us == <<"us">>
N_about_us == <<"about", "-", "us">>
N_pricing == <<"pricing">>
N_order == <<"order">>

\* the slugs of the model
PageNames == {N_about, N_us, N_about_us, N_pricing, N_order}

\* the slugs requested from generatePages when it is called on its own
RequestNames == {N_us, N_about_us, N_pricing, N_order}

\* toRouteId: slug.replace(/-/g, '_')
toRouteId(slug) == [i \in 1..Len(slug) |-> IF slug[i] = "-" THEN "_" ELSE slug[i]]

\* word.charAt(0).toUpperCase() + word.slice(1), for an atom that starts a word
capitalize(a) ==
    CASE a = "about" -> "About"
      [] a = "us" -> "Us"
      [] a = "pricing" -> "Pricing"
      [] a = "order" -> "Order"
      [] a = "home" -> "Home"
      [] a = "r" -> "R"
      [] a = "s" -> "S"
      [] OTHER -> a

\* toTitle: split('-'), capitalize each word, join(' ').  The atom that
\* starts a segment is capitalized and each "-" becomes the joining space.
toTitle(slug) ==
    [i \in 1..Len(slug) |->
        IF slug[i] = "-" THEN " "
        ELSE IF i = 1 \/ slug[i - 1] = "-" THEN capitalize(slug[i])
        ELSE slug[i]]

\* `${pageName}.astro`
AstroFile(slug) ==
    CASE slug = N_about -> "about.astro"
      [] slug = N_us -> "us.astro"
      [] slug = N_about_us -> "about-us.astro"
      [] slug = N_pricing -> "pricing.astro"
      [] slug = N_order -> "order.astro"

\* `[...${routeId}].astro`
RestFile(routeId) ==
    CASE routeId = <<"about">> -> "[...about].astro"
      [] routeId = <<"us">> -> "[...us].astro"
      [] routeId = <<"about", "_", "us">> -> "[...about_us].astro"
      [] routeId = <<"pricing">> -> "[...pricing].astro"
      [] routeId = <<"order">> -> "[...order].astro"

P_PagesDir == <<"src", "pages">>
P_LangDir == <<"src", "pages", "[lang]">>
P_BaseRoutes == <<"src", "config", "routes.ts">>
P_I18nRoutes == <<"src", "i18n", "routes.ts">>
Locales == <<"en", "es", "fr">>

\* `${locale}.ts` under src/i18n/translations
TranslationPath(locale) ==
    <<"src", "i18n", "translations",
      CASE locale = "en" -> "en.ts" [] locale = "es" -> "es.ts" [] locale = "fr" -> "fr.ts">>

PagePath(slug) == <<"src", "pages", AstroFile(slug)>>
LangPagePath(slug) == <<"src", "pages", "[lang]", RestFile(toRouteId(slug))>>

(***************************************************************************)
(* Text of the route tables and translation files, as tokens               *)
(***************************************************************************)
\* the anchor `} as const satisfies`
Anchor == [k |-> "anchor"]

\* a route entry `id: { path | en, es, fr ..., nav: { show, order, label } },`
\* custom: preceded by the line `// Custom page: <name>`
Entry(id, nav, order, custom, loc) ==
    [k |-> "entry", id |-> id, nav |-> nav, order |-> order,
     custom |-> custom, loc |-> loc]

\* other text that holds the words ws each followed by ':' and the
\* occurrences `order: n` for n in os (a comment, a type, a helper)
Note(ws, os) == [k |-> "note", words |-> ws, orders |-> os]

\* translation file: `nav: {`, a key `id: 'Title',` in it, a closing `}`,
\* a key group `id: { title, description },` and the final `} as const`
NavOpen == [k |-> "navOpen"]
NavKey(id, title) == [k |-> "navKey", id |-> id, title |-> title]
Close == [k |-> "close"]
Group(id, title) == [k |-> "group", id |-> id, title |-> title]
End == [k |-> "end"]

\* the words of a token that are directly followed by ':'
ColonWords(tok) ==
    CASE tok.k = "entry" ->
            {tok.id}
            \cup (IF tok.loc THEN {<<"en">>, <<"es">>, <<"fr">>} ELSE {<<"path">>})
            \cup (IF tok.nav THEN {<<"nav">>, <<"show">>, <<"order">>, <<"label">>}
                  ELSE {})
            \cup (IF tok.custom THEN {<<"page">>} ELSE {})
      [] tok.k = "note" ->
            tok.words \cup (IF tok.orders = {} THEN {} ELSE {<<"order">>})
      [] tok.k = "navOpen" -> {<<"nav">>}
      [] tok.k = "navKey" -> {tok.id}
      [] tok.k = "group" -> {tok.id, <<"title">>, <<"description">>}
      [] OTHER -> {}

\* the integers n of the occurrences `order: n` of a token
OrdersOf(tok) ==
    CASE tok.k = "entry" -> IF tok.nav THEN {tok.order} ELSE {}
      [] tok.k = "note" -> tok.orders
      [] OTHER -> {}

IsSuffix(s, w) == Len(s) <= Len(w) /\ SubSeq(w, Len(w) - Len(s) + 1, Len(w)) = s

\* variant of includesKey: the test is left out
includesKey_never(content, routeId) == FALSE

\* content.includes(`${routeId}:`)
includesKey(content, routeId) ==
    \E i \in 1..Len(content) : \E w \in ColonWords(content[i]) : IsSuffix(routeId, w)

\* variant of indexOfAnchor: without an anchor the end of the text is taken
indexOfAnchor_end(content) ==
    IF \E i \in 1..Len(content) : content[i] = Anchor
    THEN CHOOSE i \in 1..Len(content) :
            content[i] = Anchor /\ \A j \in 1..(i - 1) : content[j] # Anchor
    ELSE Len(content) + 1

\* content.indexOf('} as const satisfies'), 0 when there is none
indexOfAnchor(content) ==
    IF \E i \in 1..Len(content) : content[i] = Anchor
    THEN CHOOSE i \in 1..Len(content) :
            content[i] = Anchor /\ \A j \in 1..(i - 1) : content[j] # Anchor
    ELSE 0

SetMax(S) == IF S = {} THEN 0 ELSE CHOOSE m \in S : \A n \in S : n <= m

\* variant of getNextNavOrder: one more than the maximum
getNextNavOrder_plusOne(content) ==
    SetMax(UNION {OrdersOf(content[i]) : i \in 1..Len(content)}) + 1

\* getNextNavOrder: 10 more than the largest `order: n`, maxOrder starts at 0
getNextNavOrder(content) ==
    SetMax({0} \cup UNION {OrdersOf(content[i]) : i \in 1..Len(content)}) + 10

\* variant of InsertAt: the text is added at the end of the file
InsertAt_append(content, i, tok) == Append(content, tok)

\* content.slice(0, at) + tok + content.slice(at), at the 1-based index i
InsertAt(content, i, tok) ==
    SubSeq(content, 1, i - 1) \o <<tok>> \o SubSeq(content, i, Len(content))

(***************************************************************************)
(* addI18nTranslationKeys                                                  *)
(***************************************************************************)
\* content.match(/nav:\s*\{([^}]+)\}/): index of the token that closes the
\* first nav section, 0 when there is no match (a nav section of the model
\* holds navKey tokens only, so its first '}' is a token of its own)
navSectionClose(content) ==
    IF \E i \in 1..Len(content) : content[i] = NavOpen
    THEN LET i == CHOOSE a \in 1..Len(content) :
                     content[a] = NavOpen /\ \A b \in 1..(a - 1) : content[b] # NavOpen
             closers == {j \in (i + 1)..Len(content) :
                            content[j].k \in {"close", "end", "anchor"}}
         IN  IF closers = {} THEN 0
             ELSE CHOOSE j \in closers : \A c \in closers : j <= c
    ELSE 0

\* new RegExp(`^\\s*${routeId}:\\s*\\{`, 'm').test(content)
pageKeyPattern(content, routeId) ==
    \E i \in 1..Len(content) :
        \/ content[i].k = "group" /\ content[i].id = routeId
        \/ content[i].k = "navOpen" /\ routeId = <<"nav">>
        \/ content[i].k = "entry" /\ content[i].id = routeId

\* content.lastIndexOf('} as const'), 0 when there is none
lastIndexOfEnd(content) ==
    SetMax({i \in 1..Len(content) : content[i].k \in {"end", "anchor"}})

\* the body of the loop over locales, on the text of one translation file
translationKeys(content, routeId, title) ==
    LET j == navSectionClose(content)
        c1 == IF ~includesKey(content, routeId) /\ j # 0
              THEN InsertAt(content, j, NavKey(routeId, title))
              ELSE content
        e == lastIndexOfEnd(c1)
    IN  IF ~pageKeyPattern(c1, routeId) /\ e # 0
        THEN InsertAt(c1, e, Group(routeId, title))
        ELSE c1

RECURSIVE addI18nTranslationKeysFrom(_, _, _, _)
addI18nTranslationKeysFrom(t, locales, routeId, title) ==
    IF locales = <<>> THEN t
    ELSE LET p == TranslationPath(Head(locales))
             t1 == IF ~existsSync(t, p) THEN t
                   ELSE writeFileSync(t, p,
                            [t.files[p] EXCEPT
                                !.body = translationKeys(@, routeId, title)])
         IN  addI18nTranslationKeysFrom(t1, Tail(locales), routeId, title)

addI18nTranslationKeys(t, routeId, title) ==
    addI18nTranslationKeysFrom(t, Locales, routeId, title)

(***************************************************************************)
(* addBaseRouteEntry, addI18nRouteEntry                                    *)
(***************************************************************************)
\* variant of addBaseRouteEntry: the entry is written over the text at the
\* insertion point instead of being inserted before it
addBaseRouteEntry_overwrite(t, pageName) ==
    IF ~existsSync(t, P_BaseRoutes) THEN t
    ELSE LET routeId == toRouteId(pageName)
             content == t.files[P_BaseRoutes].body
             insertPoint == indexOfAnchor(content)
         IN  IF includesKey(content, routeId) THEN t
             ELSE IF insertPoint = 0 THEN t
             ELSE writeFileSync(t, P_BaseRoutes,
                     [t.files[P_BaseRoutes] EXCEPT
                         !.body = [content EXCEPT ![insertPoint] =
                                     Entry(routeId, TRUE, getNextNavOrder(content),
                                           TRUE, FALSE)]])

addBaseRouteEntry(t, pageName) ==
    IF ~existsSync(t, P_BaseRoutes) THEN t
    ELSE LET routeId == toRouteId(pageName)
             content == t.files[P_BaseRoutes].body
             insertPoint == indexOfAnchor(content)
         IN  IF includesKey(content, routeId) THEN t
             ELSE IF insertPoint = 0 THEN t
             ELSE writeFileSync(t, P_BaseRoutes,
                     [t.files[P_BaseRoutes] EXCEPT
                         !.body = InsertAt(content, insertPoint,
                                     Entry(routeId, TRUE, getNextNavOrder(content),
                                           TRUE, FALSE))])

addI18nRouteEntry(t, pageName) ==
    IF ~existsSync(t, P_I18nRoutes) THEN t
    ELSE LET routeId == toRouteId(pageName)
             content == t.files[P_I18nRoutes].body
             insertPoint == indexOfAnchor(content)
         IN  IF includesKey(content, routeId) THEN t
             ELSE IF insertPoint = 0 THEN t
             ELSE addI18nTranslationKeys(
                     writeFileSync(t, P_I18nRoutes,
                         [t.files[P_I18nRoutes] EXCEPT
                             !.body = InsertAt(content, insertPoint,
                                         Entry(routeId, TRUE, getNextNavOrder(content),
                                               TRUE, TRUE))]),
                     routeId, toTitle(pageName))

(***************************************************************************)
(* generatePages                                                           *)
(***************************************************************************)
\* generatePageTemplate / generateI18nPageTemplate
generatePageTemplate(pageName, layout) ==
    File("generated",
         <<[k |-> "page", title |-> toTitle(pageName), i18n |-> FALSE,
            layoutName |-> IF layout = "landing" THEN "LandingLayout" ELSE "PageLayout"]>>)

generateI18nPageTemplate(pageName, layout) ==
    File("generated",
         <<[k |-> "page", title |-> toTitle(pageName), i18n |-> TRUE,
            routeId |-> toRouteId(pageName),
            layoutName |-> IF layout = "landing" THEN "LandingLayout" ELSE "PageLayout"]>>)

\* a call in progress: the tree, the list generatedFiles, the number of
\* page-file writes that still succeed (negative: all do), and whether a
\* write has thrown
GenState(t, files, budget, threw) ==
    [fs |-> t, generatedFiles |-> files, budget |-> budget, threw |-> threw]

\* the first loop: standard pages
RECURSIVE standardPages(_, _, _, _)
standardPages(g, pages, layout, isI18n) ==
    IF pages = <<>> \/ g.threw THEN g
    ELSE IF g.budget = 0 THEN [g EXCEPT !.threw = TRUE]
    ELSE LET pageName == Head(pages)
             t1 == writeFileSync(g.fs, PagePath(pageName),
                                 generatePageTemplate(pageName, layout))
             t2 == IF ~isI18n THEN addBaseRouteEntry(t1, pageName) ELSE t1
         IN  standardPages(GenState(t2, Append(g.generatedFiles, PagePath(pageName)),
                                    g.budget - 1, FALSE),
                           Tail(pages), layout, isI18n)

RECURSIVE i18nPages(_, _, _)

\* variant of i18nPages: the loop over the localized pages is left out
i18nPages_none(g, pages, layout) == g

\* the second loop: pages under [lang]
i18nPages(g, pages, layout) ==
    IF pages = <<>> \/ g.threw THEN g
    ELSE IF g.budget = 0 THEN [g EXCEPT !.threw = TRUE]
    ELSE LET pageName == Head(pages)
             t1 == writeFileSync(g.fs, LangPagePath(pageName),
                                 generateI18nPageTemplate(pageName, layout))
             t2 == addI18nRouteEntry(t1, pageName)
         IN  i18nPages(GenState(t2, Append(g.generatedFiles, LangPagePath(pageName)),
                                g.budget - 1, FALSE),
                       Tail(pages), layout)

\* generatePages(targetDir, pages, layout, isI18n); budget is the number of
\* page-file writes that succeed before one throws (negative: none throws)
generatePages(t, pages, layout, isI18n, budget) ==
    IF pages = <<>> THEN GenState(t, <<>>, budget, FALSE)
    ELSE LET t0 == IF ~existsSync(t, P_PagesDir) THEN mkdirSync(t, P_PagesDir) ELSE t
             g1 == standardPages(GenState(t0, <<>>, budget, FALSE), pages, layout, isI18n)
         IN  IF g1.threw \/ ~isI18n THEN g1
             ELSE i18nPages([g1 EXCEPT
                               !.fs = IF ~existsSync(@, P_LangDir)
                                      THEN mkdirSync(@, P_LangDir) ELSE @],
                            pages, layout)

\* no write fails
NoFailure == 0 - 1

NoCall == [n |-> 0, pages |-> <<>>, generatedFiles |-> <<>>]

\* the scaffold variables of a run that does not call scaffold
IdleScaffold ==
    /\ env = [template |-> EmptyFs, i18n |-> [exists |-> FALSE, tree |-> EmptyFs],
              base |-> [exists |-> FALSE, tree |-> EmptyFs]]
    /\ pc = "idle"
    /\ log = <<>>
    /\ failed = {}

\* ScaffoldOptions (projectName, targetDir and packageManager are not modelled:
\* no stage branches on them)
Options(demo, componentSelection, i18n, pages, pageLayout) ==
    [demo |-> demo, componentSelection |-> componentSelection, i18n |-> i18n,
     pages |-> pages, pageLayout |-> pageLayout]

(***************************************************************************)
(* The front end (prompts.ts, cli.ts): page names and the option set       *)
(***************************************************************************)
\* the longest text typed at the page-names prompt
MaxInput == 4

\* a flag or default that is undefined, or given with a value
Undefined == [set |-> FALSE]
Given(v) == [set |-> TRUE, value |-> v]

\* defaults.x !== undefined ? defaults.x : the answer to the prompt
OrAsk(flag, answer) == IF flag.set THEN flag.value ELSE answer

\* the character classes of /[^a-z0-9-]/
LowerLetters ==
    {"a", "b", "c", "d", "e", "f", "g", "h", "i", "j", "k", "l", "m",
     "n", "o", "p", "q", "r", "s", "t", "u", "v", "w", "x", "y", "z"}
Digits == {"0", "1", "2", "3", "4", "5", "6", "7", "8", "9"}

\* the characters typed in the model: two letters, a capital, two digits,
\* the hyphen, the blank, the comma and a character outside the slug alphabet
InputChars == {"r", "s", "S", "4", "0", "-", " ", ",", "!"}

\* String.prototype.toLowerCase, one character at a time
toLowerCase(c) ==
    CASE c = "R" -> "r"
      [] c = "S" -> "s"
      [] OTHER -> c

\* input.split(sep)
RECURSIVE split(_, _)
split(s, sep) ==
    IF \A i \in 1..Len(s) : s[i] # sep THEN <<s>>
    ELSE LET i == CHOOSE k \in 1..Len(s) :
                     s[k] = sep /\ \A j \in 1..(k - 1) : s[j] # sep
         IN  <<SubSeq(s, 1, i - 1)>> \o split(SubSeq(s, i + 1, Len(s)), sep)

\* String.prototype.trim
RECURSIVE trimStart(_)
trimStart(s) == IF s # <<>> /\ Head(s) = " " THEN trimStart(Tail(s)) ELSE s

RECURSIVE trimEnd(_)
trimEnd(s) ==
    IF s # <<>> /\ s[Len(s)] = " " THEN trimEnd(SubSeq(s, 1, Len(s) - 1)) ELSE s

trim(s) == trimEnd(trimStart(s))

\* name.replace(/[^a-z0-9-]/g, '-')
replaceInvalid(s) ==
    [i \in 1..Len(s) |->
        IF s[i] \in LowerLetters \cup Digits \cup {"-"} THEN s[i] ELSE "-"]

RECURSIVE collapseHyphens(_)
\* variant of collapseHyphens: runs of hyphens are left as they are
collapseHyphens_keep(s) == s

\* name.replace(/-+/g, '-')
collapseHyphens(s) ==
    IF Len(s) < 2 THEN s
    ELSE IF s[1] = "-" /\ s[2] = "-" THEN collapseHyphens(Tail(s))
    ELSE <<s[1]>> \o collapseHyphens(Tail(s))

\* name.replace(/^-|-$/g, '')
stripEdgeHyphens(s) ==
    LET a == IF s # <<>> /\ Head(s) = "-" THEN Tail(s) ELSE s
    IN  IF a # <<>> /\ a[Len(a)] = "-" THEN SubSeq(a, 1, Len(a) - 1) ELSE a

\* ['index', 'blog', '404', 'rss']
ReservedNames ==
    { <<"i", "n", "d", "e", "x">>, <<"b", "l", "o", "g">>,
      <<"4", "0", "4">>, <<"r", "s", "s">> }

\* the first map: p.trim().toLowerCase()
trimLower(s) == LET t == trim(s) IN [i \in 1..Len(t) |-> toLowerCase(t[i])]

\* the second map: the three replacements
sanitize(s) == stripEdgeHyphens(collapseHyphens(replaceInvalid(s)))

RECURSIVE parseEach(_)
parseEach(parts) ==
    IF parts = <<>> THEN <<>>
    ELSE LET p == trimLower(Head(parts))
             name == sanitize(p)
         IN  (IF Len(p) > 0 /\ Len(name) > 0 /\ name \notin ReservedNames
              THEN <<name>> ELSE <<>>) \o parseEach(Tail(parts))

\* prompts.ts: parsePageNames
parsePageNames(input) ==
    IF trim(input) = <<>> THEN <<>> ELSE parseEach(split(input, ","))

\* variant of pageLayout: the layout is asked whatever demo is
pageLayout_asked(generate, demo, answer) == IF generate THEN answer ELSE "page"

\* the pageLayout step of runPrompts: PageLayout is forced when demo is No
pageLayout(generate, demo, answer) ==
    IF generate THEN (IF demo THEN answer ELSE "page") ELSE "page"

\* what the user supplies: the flags of the command line and the answers
UserInput(yes, demo, i18n, pages, components, demoAns, i18nAns, generateAns, pageNames, layoutAns, selAns) ==
    [yes |-> yes, demo |-> demo, i18n |-> i18n, pages |-> pages,
     components |-> components, demoAns |-> demoAns, i18nAns |-> i18nAns,
     generateAns |-> generateAns, pageNames |-> pageNames,
     layoutAns |-> layoutAns, selAns |-> selAns]

NoInput ==
    UserInput(FALSE, Undefined, Undefined, Undefined, Undefined,
              FALSE, FALSE, FALSE, <<>>, "page", [mode |-> "all"])

\* the front end of a run that does not go through it
IdleFrontEnd ==
    /\ ui = NoInput
    /\ cli = [at |-> "idle", slugs |-> <<>>]

\* let cachedRegistry: ComponentRegistry | null = null
Null == [null |-> TRUE]

NoFetch == [calls |-> 0, requests |-> 0, returned |-> [kind |-> "none"]]

\* the fetcher of a run that does not call it
IdleFetcher ==
    /\ cachedRegistry = Null
    /\ net = NoFetch

(***************************************************************************)
(* Specification of one resolver call on arbitrary inputs                  *)
(***************************************************************************)
InitResolve ==
    /\ rreg \in Registries
    /\ rsel \in Selections
    /\ rres = NoResult
    /\ rpc = "call"
    /\ opts = Options(TRUE, [mode |-> "all"], FALSE, <<>>, "page")
    /\ fs = EmptyFs
    /\ gen = NoCall
    /\ IdleScaffold
    /\ IdleFrontEnd
    /\ IdleFetcher

\* variant of registryAfter: the call strikes the dependency lists of the
\* modules it has resolved
registryAfter_consumed(registry, result) ==
    [registry EXCEPT !.components =
        [id \in DOMAIN @ |->
            IF InSeq(id, result.components)
            THEN [@[id] EXCEPT !.dependencies.components = <<>>]
            ELSE @[id]]]

\* the registry a call leaves behind: resolveDependencies only reads it, its
\* four Sets are created anew inside each call
registryAfter(registry, result) == registry

CallResolve ==
    /\ rpc = "call"
    /\ rres' = resolveDependencies(rsel, rreg)
    /\ rreg' = registryAfter(rreg, rres')
    /\ rpc' = "done"
    /\ UNCHANGED <<rsel, opts, fs, gen, env, ui, cli, cachedRegistry, net, pc, log, failed>>

\* a second call with the same selection and registry objects
CallResolveAgain ==
    /\ rpc = "done"
    /\ rres' = resolveDependencies(rsel, rreg)
    /\ rreg' = registryAfter(rreg, rres')
    /\ rpc' = "again"
    /\ UNCHANGED <<rsel, opts, fs, gen, env, ui, cli, cachedRegistry, net, pc, log, failed>>

NextResolve == CallResolve \/ CallResolveAgain

SpecResolve == InitResolve /\ [][NextResolve]_vars

(***************************************************************************)
(* Specification of generatePages calls on a project                       *)
(***************************************************************************)
\* route tables a project may hold before the engine touches them
\* (loc: the localized table of src/i18n, else the table of src/config)
InitialTables(loc) ==
    << <<Anchor>>,
      <<Entry(<<"home">>, TRUE, 10, FALSE, loc),
        Entry(<<"about">>, TRUE, 40, FALSE, loc), Anchor>>,
      <<Entry(<<"home">>, FALSE, 0, FALSE, loc),
        Entry(<<"about", "_", "us">>, TRUE, 40, FALSE, loc), Anchor>>,
      <<Entry(<<"home">>, TRUE, 10, FALSE, loc)>>,
      <<Entry(<<"home">>, TRUE, 20, FALSE, loc), Anchor,
        Note({<<"RouteId">>}, {70})>>,
      <<Entry(<<"home">>, TRUE, 10, FALSE, loc), Anchor,
        Entry(<<"about">>, TRUE, 40, FALSE, loc), Anchor>> >>

\* the translation file the locale overlay ships
InitialTranslation ==
    <<NavOpen, NavKey(<<"home">>, <<"Home">>), Close,
      Group(<<"home">>, <<"Home">>), End>>

\* a tree holding the files given by the function fm, with their directories
MkFs(fm) == [files |-> fm @@ <<>>, dirs |-> UNION {Ancestors(p) : p \in DOMAIN fm}]

\* the function fm without the paths in S
Without(fm, S) == Restrict(fm, (DOMAIN fm) \ S)

IdleResolver ==
    /\ rreg = MkRegistry([id \in RegIds |-> <<>>])
    /\ rsel = [mode |-> "none"]
    /\ rres = NoResult
    /\ rpc = "idle"

InitPages ==
    /\ IdleResolver
    /\ IdleScaffold
    /\ IdleFrontEnd
    /\ IdleFetcher
    /\ gen = NoCall
    /\ \E i18n \in BOOLEAN, layout \in {"page", "landing"} :
          /\ opts = Options(TRUE, [mode |-> "all"], i18n, <<>>, layout)
          /\ \E k \in 1..Len(InitialTables(FALSE)),
                missing \in IF i18n THEN {{}, {P_I18nRoutes}, {TranslationPath("fr")}}
                            ELSE {{}, {P_BaseRoutes}} :
                fs = MkFs(Without(
                        [p \in {P_BaseRoutes, P_I18nRoutes} \cup
                               {TranslationPath(Locales[i]) : i \in 1..Len(Locales)} |->
                            IF p = P_BaseRoutes
                            THEN File("template", InitialTables(FALSE)[k])
                            ELSE IF p = P_I18nRoutes
                            THEN File("i18n", InitialTables(TRUE)[k])
                            ELSE File("i18n", InitialTranslation)],
                        missing))

GeneratePagesCall ==
    /\ gen.n < MaxCalls
    /\ \E pages \in SeqsUpTo(RequestNames, MaxPages) :
          LET g == generatePages(fs, pages, opts.pageLayout, opts.i18n, NoFailure)
          IN  /\ fs' = g.fs
              /\ gen' = [n |-> gen.n + 1, pages |-> pages,
                         generatedFiles |-> g.generatedFiles]
    /\ UNCHANGED <<rreg, rsel, rres, rpc, opts, env, ui, cli, cachedRegistry, net, pc, log, failed>>

NextPages == GeneratePagesCall

SpecPages == InitPages /\ [][NextPages]_vars

(***************************************************************************)
(* scaffold.ts: constants and tree helpers                                 *)
(***************************************************************************)
P_PackageJson == <<"package.json">>
P_Manifest == <<"velocity-manifest.json">>
P_VelocityJson == <<".velocity.json">>
P_Git == <<".git">>
P_NodeModules == <<"node_modules">>
P_AstroConfig == <<"astro.config.mjs">>
P_Index == <<"src", "pages", "index.astro">>
P_About == <<"src", "pages", "about.astro">>
P_Contact == <<"src", "pages", "contact.astro">>
P_Components == <<"src", "pages", "components.astro">>
P_LangIndex == <<"src", "pages", "[lang]", "index.astro">>
P_LangAbout == <<"src", "pages", "[lang]", "[...about].astro">>
P_LangContact == <<"src", "pages", "[lang]", "[...contact].astro">>
P_LangComponents == <<"src", "pages", "[lang]", "[...components].astro">>
P_Navbar == <<"src", "components", "landing", "Navbar.astro">>
P_LandingLayout == <<"src", "layouts", "LandingLayout.astro">>
P_PageLayout == <<"src", "layouts", "PageLayout.astro">>
P_BaseLayout == <<"src", "layouts", "BaseLayout.astro">>
P_BlogDir == <<"src", "content", "blog">>
P_BlogPost == <<"src", "content", "blog", "hello.md">>
P_Faq == <<"src", "content", "faqs", "faq.md">>
P_GitKeep == <<"src", "content", "blog", ".gitkeep">>
P_LibDir == <<"src", "lib">>

CLEANUP_ITEMS ==
    << <<"pnpm-lock.yaml">>, <<"package-lock.json">>, <<"yarn.lock">>,
       <<"bun.lockb">>, <<".git">> >>

DEMO_CONTENT ==
    << <<"src", "components", "landing">>,
       <<"src", "components", "hero">>,
       P_Index, P_About, P_Contact, P_Components,
       P_LangIndex, P_LangAbout, P_LangContact, P_LangComponents,
       P_LandingLayout,
       <<"src", "content", "blog">>,
       <<"src", "content", "faqs">>,
       <<"src", "content", "authors">>,
       <<"src", "content", "pages">> >>

OPTIONAL_COMPONENT_DIRS ==
    << <<"src", "components", "ui">>,
       <<"src", "components", "patterns">>,
       <<"src", "components", "hero">> >>

\* registry/resolver.ts I18N_FILES
I18N_FILES ==
    << <<"src", "i18n", "config.ts">>,
       <<"src", "i18n", "index.ts">>,
       TranslationPath("en"), TranslationPath("es"), TranslationPath("fr"),
       <<"src", "components", "i18n", "LanguageSwitcher.astro">>,
       P_BaseLayout, P_LangIndex, P_AstroConfig >>

\* removeItems(targetDir, items)
RECURSIVE removeItems(_, _)
removeItems(t, items) ==
    IF items = <<>> THEN t
    ELSE removeItems(IF existsSync(t, Head(items)) THEN rmSync(t, Head(items)) ELSE t,
                     Tail(items))

\* copyTemplateFiles(src, dest): o is the source tree, d the directory of it
\* being copied (<<>> is its root); the files of d are copied, then each
\* sub-directory of d in turn (todo: those still to copy)
RECURSIVE copyDir(_, _, _)
RECURSIVE copySubDirs(_, _, _)
copyDir(o, d, t) ==
    LET t0 == IF d # <<>> /\ ~existsSync(t, d) THEN mkdirSync(t, d) ELSE t
        entries == readdirSync(o, d)
        t1 == [t0 EXCEPT !.files = Restrict(o.files, entries \ o.dirs) @@ @]
    IN  copySubDirs(o, entries \cap o.dirs, t1)

copySubDirs(o, todo, t) ==
    IF todo = {} THEN t
    ELSE LET e == CHOOSE x \in todo : TRUE
         IN  copySubDirs(o, todo \ {e}, copyDir(o, e, t))

\* variant of copyTemplateFiles: a file already in the tree is not replaced
copyTemplateFiles_keepExisting(o, t) ==
    LET c == copyDir(o, <<>>, t) IN [c EXCEPT !.files = t.files @@ c.files]

copyTemplateFiles(o, t) == copyDir(o, <<>>, t)

\* variant of walkFilesRelative: sub-directories are not entered
walkFilesRelative_flat(t, dir) ==
    {p \in readdirSync(t, dir) : p \notin t.dirs}

\* walkFilesRelative(absDir, relativeBase): the files below dir
RECURSIVE walkFilesRelative(_, _)
walkFilesRelative(t, dir) ==
    IF ~existsSync(t, dir) THEN {}
    ELSE {p \in readdirSync(t, dir) : p \notin t.dirs}
         \cup UNION {walkFilesRelative(t, d) : d \in readdirSync(t, dir) \cap t.dirs}

\* removeEmptyDirs(dir); todo: the sub-directories of dir still to visit
RECURSIVE removeEmptyDirs(_, _)
RECURSIVE removeEmptyDirsIn(_, _)
\* variant of removeEmptyDirs: the sub-directories are not visited
removeEmptyDirs_top(t, dir) ==
    IF existsSync(t, dir) /\ readdirSync(t, dir) = {} THEN rmSync(t, dir) ELSE t

removeEmptyDirs(t, dir) ==
    IF ~existsSync(t, dir) THEN t
    ELSE LET t1 == removeEmptyDirsIn(t, readdirSync(t, dir) \cap t.dirs)
         IN  IF readdirSync(t1, dir) = {} THEN rmSync(t1, dir) ELSE t1

removeEmptyDirsIn(t, todo) ==
    IF todo = {} THEN t
    ELSE LET d == CHOOSE x \in todo : TRUE
         IN  removeEmptyDirsIn(removeEmptyDirs(t, d), todo \ {d})

\* rmSync(file, { force: true }) for every file of the set
rmFiles(t, todo) == [t EXCEPT !.files = Restrict(@, (DOMAIN @) \ todo)]

\* keepOnlyFiles(targetDir, filesToKeep)
RECURSIVE keepOnlyFilesIn(_, _, _)
keepOnlyFilesIn(t, componentDirs, filesToKeep) ==
    IF componentDirs = <<>> THEN t
    ELSE LET dir == Head(componentDirs)
             t1 == IF ~existsSync(t, dir) THEN t
                   ELSE removeEmptyDirs(
                            rmFiles(t, {f \in walkFilesRelative(t, dir) :
                                           f \notin filesToKeep}),
                            dir)
         IN  keepOnlyFilesIn(t1, Tail(componentDirs), filesToKeep)

\* variant of keepOnlyFiles: the whole of src/components is filtered
keepOnlyFiles_components(t, filesToKeep) ==
    keepOnlyFilesIn(t, <<<<"src", "components">>>>, filesToKeep)

\* keepOnlyFiles: componentDirs is the list of OPTIONAL_COMPONENT_DIRS
keepOnlyFiles(t, filesToKeep) ==
    keepOnlyFilesIn(t, OPTIONAL_COMPONENT_DIRS, filesToKeep)

\* updatePackageJson: name set, version reset, origin fields deleted
updatePackageJson(t) ==
    writeFileSync(t, P_PackageJson,
        [t.files[P_PackageJson] EXCEPT
            !.body = <<[k |-> "pkg", name |-> "projectName", version |-> "0.1.0",
                        origin |-> FALSE]>>])

\* createContentDirectories
createContentDirectories(t) ==
    IF ~existsSync(t, P_BlogDir)
    THEN writeFileSync(mkdirSync(t, P_BlogDir), P_GitKeep, File("generated", <<>>))
    ELSE t

\* the part of applyComponentSelection after a successful resolution
applyResolved(t, resolved) ==
    LET t1 == keepOnlyFiles(t, Range(resolved.files))
    IN  IF InSeq("cn", resolved.utilities) /\ ~existsSync(t1, P_LibDir)
        THEN mkdirSync(t1, P_LibDir)
        ELSE t1

\* step 6.5: the template version read back from the tree
templateVersion(t) ==
    IF existsSync(t, P_Manifest)
    THEN t.files[P_Manifest].body[1].version
    ELSE IF existsSync(t, P_PackageJson)
    THEN t.files[P_PackageJson].body[1].version
    ELSE "0.1.0-beta"

\* createInitialConfig + writeVelocityConfig
writeVelocityConfig(t, o) ==
    writeFileSync(t, P_VelocityJson,
        File("generated",
             <<[k |-> "velocity", templateVersion |-> templateVersion(t),
                options |-> o]>>))

(***************************************************************************)
(* scaffold.ts: what scaffold finds outside the working tree               *)
(***************************************************************************)
\* a tree holding the paths S, each file from src, with the given texts
TreeOf(S, src, texts) ==
    MkFs([p \in S |-> File(src, IF p \in DOMAIN texts THEN texts[p] ELSE <<>>)])

TemplateVersion == "1.4.0"

\* the repository that downloadTemplate fetches, with or without a manifest
\* and with or without the directory src/lib
Template(manifest, lib) ==
    TreeOf({P_PackageJson, <<"pnpm-lock.yaml">>, P_AstroConfig,
            P_Button, P_UiIndex, P_Input, P_ContactForm, P_Hero, P_Navbar,
            P_BaseLayout, P_LandingLayout, P_PageLayout,
            P_Index, P_About, P_Contact, P_Components,
            P_BlogPost, P_Faq, P_BaseRoutes}
           \cup (IF manifest THEN {P_Manifest} ELSE {})
           \cup (IF lib THEN {P_Cn} ELSE {}),
           "template",
           [p \in {P_PackageJson, P_Manifest, P_BaseRoutes} |->
               IF p = P_PackageJson
               THEN <<[k |-> "pkg", name |-> "velocity", version |-> TemplateVersion,
                       origin |-> TRUE]>>
               ELSE IF p = P_Manifest
               THEN <<[k |-> "manifest", version |-> TemplateVersion]>>
               ELSE InitialTables(FALSE)[2]])

\* templates/i18n: the files of I18N_FILES and the localized route table,
\* with or without localized demo pages
LocalizedDemoPages == {P_LangAbout, P_LangContact, P_LangComponents}

I18nOverlay(demoPages) ==
    TreeOf(Range(I18N_FILES) \cup {P_I18nRoutes}
           \cup (IF demoPages THEN LocalizedDemoPages ELSE {}),
           "i18n",
           [p \in {P_I18nRoutes, TranslationPath("en"), TranslationPath("es"),
                   TranslationPath("fr")} |->
               IF p = P_I18nRoutes THEN InitialTables(TRUE)[2]
               ELSE InitialTranslation])

\* templates/base: the minimal pages; three shapes of it
BaseOverlays ==
    << TreeOf({P_Index}, "base", <<>>),
       TreeOf({P_Index, P_BaseLayout}, "base", <<>>),
       TreeOf({P_Index, P_LangIndex}, "base", <<>>) >>

\* a directory of the package: present with a tree, or not there
Present(tree) == [exists |-> TRUE, tree |-> tree]
Missing == [exists |-> FALSE, tree |-> EmptyFs]

Env(template, i18n, base) == [template |-> template, i18n |-> i18n, base |-> base]

\* registries fetchRegistry may return to scaffold: a chain and a cycle
ScaffoldRegistries ==
    { MkRegistry([id \in RegIds |->
                    IF id = "contact-form" THEN <<"button">> ELSE <<>>]),
      MkRegistry([id \in RegIds |->
                    IF id = "contact-form" THEN <<"button">>
                    ELSE IF id = "button" THEN <<"contact-form">> ELSE <<>>]) }

ScaffoldSelections ==
    { [mode |-> "all"], [mode |-> "none"],
      [mode |-> "categories", categories |-> {"ui"}],
      [mode |-> "categories", categories |-> {"patterns", "hero"}],
      [mode |-> "categories", categories |-> {"hero"}],
      [mode |-> "individual", components |-> <<"contact-form", GhostId>>] }

ScaffoldPageLists == {<<>>, <<N_about>>, <<N_pricing, N_about_us>>}

(***************************************************************************)
(* scaffold.ts: the pipeline                                               *)
(***************************************************************************)
StageOrder ==
    <<"download", "components", "i18n", "demo", "pages", "package",
      "provenance", "git", "install">>

StageNo(stage) == CHOOSE i \in 1..Len(StageOrder) : StageOrder[i] = stage

\* variant of After: demo removal is placed before the locale overlay
After_demoFirst(stage) ==
    CASE stage = "components" -> "demo"
      [] stage = "demo" -> "i18n"
      [] stage = "i18n" -> "pages"
      [] OTHER -> IF StageNo(stage) = Len(StageOrder) THEN "done"
                  ELSE StageOrder[StageNo(stage) + 1]

\* the statement that follows a stage in the body of scaffold
After(stage) ==
    IF StageNo(stage) = Len(StageOrder) THEN "done"
    ELSE StageOrder[StageNo(stage) + 1]

\* variant of Swallows: every stage catches what it throws
Swallows_all(stage) == TRUE

\* the stages whose catch block does not rethrow (6.5, initGit, install)
Swallows(stage) == stage \in {"provenance", "git", "install"}

\* variant of Outcome: whatever a stage throws leaves scaffold
Outcome_raise(stage) == "raised"

\* where control goes when an operation of the stage throws
Outcome(stage) == IF Swallows(stage) THEN After(stage) ELSE "raised"

\* variant of removesDemo: the test of the demo flag is left out
removesDemo_always(o) == TRUE

\* if (!demo)
removesDemo(o) == ~o.demo

\* a stage ran to its end, or was skipped, leaving the tree t
Ran(stage, t, skipped) ==
    /\ fs' = t
    /\ log' = IF skipped THEN log ELSE Append(log, stage)
    /\ pc' = After(stage)
    /\ failed' = failed

\* an operation of the stage threw, leaving the tree t
Threw(stage, t) ==
    /\ fs' = t
    /\ log' = Append(log, stage)
    /\ pc' = Outcome(stage)
    /\ failed' = failed \cup {stage}

InitScaffold ==
    /\ \E demo \in BOOLEAN, i18n \in BOOLEAN, sel \in ScaffoldSelections,
          pages \in ScaffoldPageLists, layoutAns \in {"page", "landing"} :
          /\ opts = Options(demo, sel, i18n, pages,
                            pageLayout(pages # <<>>, demo, layoutAns))
          /\ rsel = sel
          /\ rreg \in IF sel.mode \in {"categories", "individual"}
                      THEN ScaffoldRegistries
                      ELSE {MkRegistry([id \in RegIds |-> <<>>])}
          /\ \E manifest \in BOOLEAN,
                lib \in IF sel.mode \in {"categories", "individual"}
                        THEN BOOLEAN ELSE {TRUE} :
                \E ov \in IF i18n
                          THEN {Missing} \cup {Present(I18nOverlay(d)) : d \in BOOLEAN}
                          ELSE {Present(I18nOverlay(TRUE))},
                   bs \in IF demo
                          THEN {Present(BaseOverlays[1])}
                          ELSE {Missing} \cup {Present(BaseOverlays[b]) :
                                                  b \in 1..Len(BaseOverlays)} :
                    env = Env(Template(manifest, lib), ov, bs)
    /\ rres = NoResult
    /\ rpc = "idle"
    /\ fs = EmptyFs
    /\ gen = NoCall
    /\ pc = "download"
    /\ log = <<>>
    /\ failed = {}
    /\ IdleFrontEnd
    /\ IdleFetcher

\* step 1
DownloadTemplate ==
    /\ pc = "download"
    /\ Ran("download",
           removeItems(copyTemplateFiles(env.template, fs), CLEANUP_ITEMS), FALSE)
    /\ UNCHANGED <<rreg, rsel, rres, rpc, opts, gen, env, ui, cli, cachedRegistry, net>>

\* step 1, downloadTemplate throwing before or after it extracted a file
DownloadFails ==
    /\ pc = "download"
    /\ \E extracted \in BOOLEAN :
          Threw("download",
                IF extracted
                THEN writeFileSync(fs, P_PackageJson, env.template.files[P_PackageJson])
                ELSE fs)
    /\ UNCHANGED <<rreg, rsel, rres, rpc, opts, gen, env, ui, cli, cachedRegistry, net>>

\* step 2, the registry being fetched where the mode needs it
ConfigureComponents ==
    /\ pc = "components"
    /\ IF opts.componentSelection.mode = "all"
       THEN Ran("components", fs, TRUE) /\ UNCHANGED <<rres, rpc>>
       ELSE IF opts.componentSelection.mode = "none"
       THEN /\ Ran("components", removeItems(fs, OPTIONAL_COMPONENT_DIRS), FALSE)
            /\ UNCHANGED <<rres, rpc>>
       ELSE LET resolved == resolveDependencies(opts.componentSelection, rreg)
            IN  /\ rres' = resolved
                /\ rpc' = "done"
                /\ Ran("components",
                       IF resolved.threw THEN fs ELSE applyResolved(fs, resolved),
                       FALSE)
    /\ UNCHANGED <<rreg, rsel, opts, gen, env, ui, cli, cachedRegistry, net>>

\* variant of catchesRegistryError: the error of fetchRegistry is let through
catchesRegistryError_rethrow == FALSE

\* applyComponentSelection: try { fetchRegistry ... } catch { warn; return }
catchesRegistryError == TRUE

\* step 2, fetchRegistry throwing: caught in applyComponentSelection
RegistryUnavailable ==
    /\ pc = "components"
    /\ opts.componentSelection.mode \in {"categories", "individual"}
    /\ rpc' = "unavailable"
    /\ IF catchesRegistryError THEN Ran("components", fs, FALSE)
       ELSE Threw("components", fs)
    /\ UNCHANGED <<rreg, rsel, rres, opts, gen, env, ui, cli, cachedRegistry, net>>

\* step 3
ApplyI18nOverlay ==
    /\ pc = "i18n"
    /\ IF ~opts.i18n THEN Ran("i18n", fs, TRUE)
       ELSE IF ~env.i18n.exists THEN Threw("i18n", fs)
       ELSE Ran("i18n", copyTemplateFiles(env.i18n.tree, fs), FALSE)
    /\ UNCHANGED <<rreg, rsel, rres, rpc, opts, gen, env, ui, cli, cachedRegistry, net>>

\* step 4
RemoveDemoContent ==
    /\ pc = "demo"
    /\ IF ~removesDemo(opts) THEN Ran("demo", fs, TRUE)
       ELSE LET t1 == removeItems(fs, DEMO_CONTENT)
            IN  IF ~env.base.exists THEN Threw("demo", t1)
                ELSE Ran("demo",
                         createContentDirectories(copyTemplateFiles(env.base.tree, t1)),
                         FALSE)
    /\ UNCHANGED <<rreg, rsel, rres, rpc, opts, gen, env, ui, cli, cachedRegistry, net>>

\* step 5
GenerateStarterPages ==
    /\ pc = "pages"
    /\ IF opts.pages = <<>> THEN Ran("pages", fs, TRUE) /\ gen' = gen
       ELSE LET g == generatePages(fs, opts.pages, opts.pageLayout, opts.i18n, NoFailure)
            IN  /\ Ran("pages", g.fs, FALSE)
                /\ gen' = [n |-> gen.n + 1, pages |-> opts.pages,
                           generatedFiles |-> g.generatedFiles]
    /\ UNCHANGED <<rreg, rsel, rres, rpc, opts, env, ui, cli, cachedRegistry, net>>

\* step 5, a page-file write throwing after budget writes
GeneratePagesFails ==
    /\ pc = "pages"
    /\ opts.pages # <<>>
    /\ \E budget \in 0..(Len(opts.pages) * (IF opts.i18n THEN 2 ELSE 1) - 1) :
          Threw("pages",
                generatePages(fs, opts.pages, opts.pageLayout, opts.i18n, budget).fs)
    /\ UNCHANGED <<rreg, rsel, rres, rpc, opts, gen, env, ui, cli, cachedRegistry, net>>

\* step 6
UpdatePackage ==
    /\ pc = "package"
    /\ Ran("package", updatePackageJson(fs), FALSE)
    /\ UNCHANGED <<rreg, rsel, rres, rpc, opts, gen, env, ui, cli, cachedRegistry, net>>

UpdatePackageFails ==
    /\ pc = "package"
    /\ Threw("package", fs)
    /\ UNCHANGED <<rreg, rsel, rres, rpc, opts, gen, env, ui, cli, cachedRegistry, net>>

\* step 6.5
WriteProvenance ==
    /\ pc = "provenance"
    /\ Ran("provenance", writeVelocityConfig(fs, opts), FALSE)
    /\ UNCHANGED <<rreg, rsel, rres, rpc, opts, gen, env, ui, cli, cachedRegistry, net>>

WriteProvenanceFails ==
    /\ pc = "provenance"
    /\ Threw("provenance", fs)
    /\ UNCHANGED <<rreg, rsel, rres, rpc, opts, gen, env, ui, cli, cachedRegistry, net>>

\* step 7
InitGit ==
    /\ pc = "git"
    /\ Ran("git", mkdirSync(fs, P_Git), FALSE)
    /\ UNCHANGED <<rreg, rsel, rres, rpc, opts, gen, env, ui, cli, cachedRegistry, net>>

\* one of the three git commands failing: .git is there unless it was init
InitGitFails ==
    /\ pc = "git"
    /\ \E inited \in BOOLEAN : Threw("git", IF inited THEN mkdirSync(fs, P_Git) ELSE fs)
    /\ UNCHANGED <<rreg, rsel, rres, rpc, opts, gen, env, ui, cli, cachedRegistry, net>>

\* step 8
InstallDependencies ==
    /\ pc = "install"
    /\ Ran("install", mkdirSync(fs, P_NodeModules), FALSE)
    /\ UNCHANGED <<rreg, rsel, rres, rpc, opts, gen, env, ui, cli, cachedRegistry, net>>

InstallFails ==
    /\ pc = "install"
    /\ Threw("install", fs)
    /\ UNCHANGED <<rreg, rsel, rres, rpc, opts, gen, env, ui, cli, cachedRegistry, net>>

Next ==
    \/ DownloadTemplate \/ DownloadFails
    \/ ConfigureComponents \/ RegistryUnavailable
    \/ ApplyI18nOverlay
    \/ RemoveDemoContent
    \/ GenerateStarterPages \/ GeneratePagesFails
    \/ UpdatePackage \/ UpdatePackageFails
    \/ WriteProvenance \/ WriteProvenanceFails
    \/ InitGit \/ InitGitFails
    \/ InstallDependencies \/ InstallFails

Spec == InitScaffold /\ [][Next]_vars

(***************************************************************************)
(* Specification of one parsePageNames call on arbitrary typed text        *)
(***************************************************************************)
\* the variables of a run in which neither the resolver, generatePages nor
\* scaffold is called
IdleEngine ==
    /\ IdleResolver
    /\ IdleScaffold
    /\ opts = Options(TRUE, [mode |-> "all"], FALSE, <<>>, "page")
    /\ fs = EmptyFs
    /\ gen = NoCall

InitParse ==
    /\ IdleEngine
    /\ IdleFetcher
    /\ \E text \in SeqsUpTo(InputChars, MaxInput) :
          ui = [NoInput EXCEPT !.pageNames = text]
    /\ cli = [at |-> "validate", slugs |-> <<>>]

\* the validate callback of the page-names prompt calls parsePageNames
ParsePageNames ==
    /\ cli.at = "validate"
    /\ cli' = [at |-> "parsed", slugs |-> parsePageNames(ui.pageNames)]
    /\ UNCHANGED <<rreg, rsel, rres, rpc, opts, fs, gen, env, pc, log, failed,
                   ui, cachedRegistry, net>>

NextParse == ParsePageNames

SpecParse == InitParse /\ [][NextParse]_vars

(***************************************************************************)
(* Specification of the front end: from the command line to scaffold       *)
(***************************************************************************)
\* the texts typed at the page-names prompt
FrontEndTexts ==
    { <<>>, <<"r", "s", "s">>, <<"s", "-", "4">>, <<"S", " ", ",", "4">> }

UserInputs ==
    { UserInput(yes, demo, i18n, pages, components,
                demoAns, i18nAns, generateAns, pageNames, layoutAns,
                [mode |-> "all"]) :
        yes \in BOOLEAN,
        demo \in {Undefined, Given(TRUE), Given(FALSE)},
        i18n \in {Undefined, Given(TRUE)},
        pages \in {Undefined, Given(TRUE), Given(FALSE)},
        components \in {Undefined, Given([mode |-> "none"])},
        demoAns \in BOOLEAN, i18nAns \in BOOLEAN, generateAns \in BOOLEAN,
        pageNames \in FrontEndTexts, layoutAns \in {"page", "landing"} }

\* args.x || false
OrFalse(flag) == flag.set /\ flag.value

\* cli.ts: the option set of the --yes path
yesOptions(u) ==
    Options(OrFalse(u.demo), OrAsk(u.components, [mode |-> "all"]),
            OrFalse(u.i18n), <<>>, "page")

\* prompts.ts: the answers runPrompts returns
runPrompts(u) ==
    LET demo == OrAsk(u.demo, u.demoAns)
        generate == OrAsk(u.pages, u.generateAns)
        pageNames == IF generate THEN u.pageNames ELSE <<>>
    IN  Options(demo, OrAsk(u.components, u.selAns), OrAsk(u.i18n, u.i18nAns),
                parsePageNames(pageNames),
                pageLayout(generate, demo, u.layoutAns))

InitFrontEnd ==
    /\ IdleEngine
    /\ IdleFetcher
    /\ ui \in UserInputs
    /\ cli = [at |-> "run", slugs |-> <<>>]

\* cli.ts: the --yes path calls scaffold without prompting
RunYes ==
    /\ cli.at = "run"
    /\ ui.yes
    /\ opts' = yesOptions(ui)
    /\ cli' = [at |-> "scaffold", slugs |-> <<>>]
    /\ UNCHANGED <<rreg, rsel, rres, rpc, fs, gen, env, pc, log, failed,
                   ui, cachedRegistry, net>>

\* the validate callback refuses a text without a valid name: the prompt
\* stays open and the user types again
PageNamesRejected ==
    /\ cli.at = "run"
    /\ ~ui.yes
    /\ OrAsk(ui.pages, ui.generateAns)
    /\ parsePageNames(ui.pageNames) = <<>>
    /\ \E text \in FrontEndTexts \ {ui.pageNames} :
          ui' = [ui EXCEPT !.pageNames = text]
    /\ UNCHANGED <<rreg, rsel, rres, rpc, opts, fs, gen, env, pc, log, failed,
                   cli, cachedRegistry, net>>

\* cli.ts: the interactive path hands the answers of runPrompts to scaffold
RunInteractive ==
    /\ cli.at = "run"
    /\ ~ui.yes
    /\ OrAsk(ui.pages, ui.generateAns) => parsePageNames(ui.pageNames) # <<>>
    /\ opts' = runPrompts(ui)
    /\ cli' = [at |-> "scaffold", slugs |-> opts'.pages]
    /\ UNCHANGED <<rreg, rsel, rres, rpc, fs, gen, env, pc, log, failed,
                   ui, cachedRegistry, net>>

\* a cancelled prompt, or a target directory that is refused: process.exit
ExitBeforeScaffold ==
    /\ cli.at = "run"
    /\ cli' = [at |-> "exit", slugs |-> <<>>]
    /\ UNCHANGED <<rreg, rsel, rres, rpc, opts, fs, gen, env, pc, log, failed,
                   ui, cachedRegistry, net>>

NextFrontEnd == RunYes \/ PageNamesRejected \/ RunInteractive \/ ExitBeforeScaffold

SpecFrontEnd == InitFrontEnd /\ [][NextFrontEnd]_vars

(***************************************************************************)
(* Specification of the registry fetcher (registry/fetcher.ts)             *)
(***************************************************************************)
\* the fetchRegistry calls of a run
MaxFetch == 6

\* what the remote answers: a registry document, or a failure (no network,
\* a status that is not ok, a body that is not JSON)
Responses ==
    {[ok |-> FALSE]} \cup
    {[ok |-> TRUE, json |-> r] :
        r \in ScaffoldRegistries \cup {MkRegistry([id \in RegIds |-> <<>>])}}

\* variant of cacheHit: the cache is never looked at
cacheHit_never(cached) == FALSE

\* if (cachedRegistry)
cacheHit(cached) == cached # Null

Returned(r) == [kind |-> "value", value |-> r]
ThrewError == [kind |-> "threw"]

InitFetch ==
    /\ IdleEngine
    /\ IdleFrontEnd
    /\ IdleFetcher

\* fetchRegistry()
FetchRegistry ==
    /\ net.calls < MaxFetch
    /\ IF cacheHit(cachedRegistry)
       THEN /\ net' = [net EXCEPT !.calls = @ + 1,
                                  !.returned = Returned(cachedRegistry)]
            /\ UNCHANGED cachedRegistry
       ELSE \E response \in Responses :
               IF response.ok
               THEN /\ cachedRegistry' = response.json
                    /\ net' = [calls |-> net.calls + 1,
                               requests |-> net.requests + 1,
                               returned |-> Returned(response.json)]
               ELSE /\ UNCHANGED cachedRegistry
                    /\ net' = [calls |-> net.calls + 1,
                               requests |-> net.requests + 1,
                               returned |-> ThrewError]
    /\ UNCHANGED <<rreg, rsel, rres, rpc, opts, fs, gen, env, pc, log, failed,
                   ui, cli>>

\* clearRegistryCache()
ClearRegistryCache ==
    /\ cachedRegistry' = Null
    /\ UNCHANGED <<rreg, rsel, rres, rpc, opts, fs, gen, env, pc, log, failed,
                   ui, cli, net>>

NextFetch == FetchRegistry \/ ClearRegistryCache

SpecFetch == InitFetch /\ [][NextFetch]_vars

(***************************************************************************)
(* Properties of the route-table mutation engine                           *)
(***************************************************************************)
RouteTables == {P_BaseRoutes, P_I18nRoutes}

\* the text of the file p of tree t, empty when there is no such file
TextOf(t, p) == IF p \in DOMAIN t.files THEN t.files[p].body ELSE <<>>

IsEntry(tok) == tok.k = "entry"

IsCustomEntry(tok) == IsEntry(tok) /\ tok.custom

HasKey(content, id) ==
    \E i \in 1..Len(content) : IsEntry(content[i]) /\ content[i].id = id

UniqueKeys(content) ==
    \A i, j \in 1..Len(content) :
        (IsEntry(content[i]) /\ IsEntry(content[j]) /\ content[i].id = content[j].id)
            => i = j

\* C7: every generatePages call leaves each route table with at most one
\* entry per route identifier, and a call all of whose requested pages have
\* their identifier in a table already leaves the text of that table as it
\* was.
C7_UniqueRouteIds ==
    [][gen'.n # gen.n =>
        \A p \in RouteTables :
            /\ UniqueKeys(TextOf(fs', p))
            /\ (\A i \in 1..Len(gen'.pages) :
                    HasKey(TextOf(fs, p), toRouteId(gen'.pages[i])))
                => TextOf(fs', p) = TextOf(fs, p)]_vars

\* C7 witness: the second call requests the same name twice and the table,
\* empty at first, holds that one entry and the anchor.
C7_Witness ==
    /\ gen.n = 2 /\ gen.pages = <<N_pricing, N_pricing>> /\ ~opts.i18n
    /\ HasKey(TextOf(fs, P_BaseRoutes), <<"pricing">>)
    /\ Len(TextOf(fs, P_BaseRoutes)) = 2

\* the `order: n` values of content that were in the file before the custom
\* entry at index i was spliced in: those of every token except the custom
\* entries at or after i
OrdersBefore(content, i) ==
    UNION {OrdersOf(content[j]) :
              j \in {a \in 1..Len(content) : a < i \/ ~IsCustomEntry(content[a])}}

\* C8: every entry spliced in by page generation carries the order
\* 10 + the largest `order: n` in the file before the splice (0 if none),
\* hence an order greater than every order that was in the file.
C8_NavOrder ==
    \A p \in RouteTables :
        LET content == TextOf(fs, p)
        IN  \A i \in 1..Len(content) :
                IsCustomEntry(content[i]) =>
                    /\ content[i].order = 10 + SetMax({0} \cup OrdersBefore(content, i))
                    /\ \A n \in OrdersBefore(content, i) : content[i].order > n

\* C8 witness: a table whose largest order was 40 received two entries, with
\* the orders 50 and 60.
C8_Witness ==
    LET content == TextOf(fs, P_BaseRoutes)
    IN  \E i \in 2..Len(content) :
            /\ IsCustomEntry(content[i]) /\ content[i].order = 60
            /\ IsCustomEntry(content[i - 1]) /\ content[i - 1].order = 50
            /\ SetMax({0} \cup OrdersBefore(content, i - 1)) = 40

(***************************************************************************)
(* Properties of the resolver                                              *)
(***************************************************************************)
\* the module-dependency edges of a registry, as a set of pairs
DepEdges(registry) ==
    {<<a, b>> \in (DOMAIN registry.components) \X AllIds :
        InSeq(b, registry.components[a].dependencies.components)}

\* everything reachable from S along the edges E
RECURSIVE Closure(_, _)
Closure(S, E) ==
    LET N == S \cup {e[2] : e \in {f \in E : f[1] \in S}}
    IN  IF N = S THEN S ELSE Closure(N, E)

Acyclic(registry) ==
    \A a \in DOMAIN registry.components :
        a \notin Closure({e[2] : e \in {f \in DepEdges(registry) : f[1] = a}},
                         DepEdges(registry))

\* the roots of a selection, as the selection modes define them
Roots(selection, registry) ==
    CASE selection.mode = "all" -> DOMAIN registry.components
      [] selection.mode = "categories" ->
            {id \in DOMAIN registry.components :
                registry.components[id].category \in selection.categories}
      [] selection.mode = "individual" -> Range(selection.components)
      [] OTHER -> {}

Reachable(selection, registry) ==
    Closure(Roots(selection, registry), DepEdges(registry))
        \cap DOMAIN registry.components

\* C4: for an acyclic registry the call returns, and the returned module
\* list holds exactly the declared modules reachable from the selection's
\* roots along dependency edges.
C4_ExactClosure ==
    (rpc = "done" /\ Acyclic(rreg)) =>
        /\ ~rres.threw
        /\ Range(rres.components) = Reachable(rsel, rreg)

\* C4 witness: a returned module that is no root and is reached only through
\* a chain of two dependency edges, next to a declared module left out.
C4_Witness ==
    /\ rpc = "done" /\ Acyclic(rreg) /\ ~rres.threw
    /\ rsel.mode = "individual" /\ rsel.components = <<"button">>
    /\ rreg.components["button"].dependencies.components = <<"contact-form">>
    /\ rreg.components["contact-form"].dependencies.components = <<"hero">>
    /\ Range(rres.components) = RegIds

\* C5: no id or path occurs twice in any of the four returned lists, and no
\* module passes through the body of resolve more than once.
C5_NoDuplicates ==
    rpc = "done" =>
        /\ NoDup(rres.components)
        /\ NoDup(rres.utilities)
        /\ NoDup(rres.files)
        /\ NoDup(rres.npmPackages)
        /\ NoDup(rres.expanded)

\* C5 witness: a diamond (hero is a dependency of both button and
\* contact-form, both resolved) under a request list that repeats an id.
C5_Witness ==
    /\ rpc = "done" /\ ~rres.threw
    /\ rsel.mode = "individual"
    /\ rsel.components = <<"button", "button">>
    /\ InSeq("hero", rreg.components["button"].dependencies.components)
    /\ InSeq("contact-form", rreg.components["button"].dependencies.components)
    /\ InSeq("hero", rreg.components["contact-form"].dependencies.components)
    /\ Range(rres.components) = RegIds
    /\ Len(rres.files) = 6

\* C9 (as claimed): the call returns for every registry, cyclic ones
\* included; the recursion never exhausts the call stack.
C9_TerminatesOnCycles ==
    rpc = "done" => ~rres.threw

(***************************************************************************)
(* Properties of the overlay composition pipeline                          *)
(***************************************************************************)
AllStagesRan == Len(log) = Len(StageOrder)

\* C1: the stages that execute do so in the order download, components,
\* i18n, demo, pages, package, provenance, git, install: the stages run so
\* far are strictly increasing in that order (so none runs twice and the
\* locale overlay precedes demo removal), and the stage about to run comes
\* after all of them.
C1_StageOrder ==
    /\ \A i, j \in 1..Len(log) : i < j => StageNo(log[i]) < StageNo(log[j])
    /\ pc \in Range(StageOrder) =>
          \A i \in 1..Len(log) : StageNo(log[i]) < StageNo(pc)

\* a run in which all nine stages executed, none of them failing
C1_Witness ==
    /\ pc = "done"
    /\ AllStagesRan
    /\ log = StageOrder
    /\ failed = {}

DemoPages == {P_About, P_Contact, P_Components}

\* a file of the tree t at path p that page generation did not write
ShippedAt(t, p) == p \in DOMAIN t.files /\ t.files[p].src # "generated"

\* C2 (as claimed): for demo = false and i18n = true, when scaffold has
\* returned, no demo page is in the tree in its base or its localized form,
\* and every file of I18N_FILES is.
C2_NoDemoPagesButI18nFiles ==
    (pc = "done" /\ ~opts.demo /\ opts.i18n) =>
        /\ \A p \in DemoPages \cup LocalizedDemoPages : ~ShippedAt(fs, p)
        /\ \A i \in 1..Len(I18N_FILES) : I18N_FILES[i] \in DOMAIN fs.files

\* C3: for demo = true and i18n = true, every localized demo page that the
\* locale overlay holds is in the tree from the end of stage 3 on, whatever
\* stage runs or fails afterwards.
C3_LocalizedDemoPagesKept ==
    (opts.demo /\ opts.i18n /\ InSeq("i18n", log) /\ "i18n" \notin failed) =>
        \A p \in LocalizedDemoPages :
            p \in DOMAIN env.i18n.tree.files => p \in DOMAIN fs.files

\* a finished run with the demo, the locale overlay and a generated page
C3_Witness ==
    /\ pc = "done"
    /\ opts.demo /\ opts.i18n
    /\ opts.pages = <<N_about>>
    /\ LocalizedDemoPages \subseteq DOMAIN env.i18n.tree.files
    /\ LocalizedDemoPages \subseteq DOMAIN fs.files
    /\ InSeq("pages", log) /\ InSeq("package", log)

UnderOptionalDir(p) ==
    \E i \in 1..Len(OPTIONAL_COMPONENT_DIRS) : IsPrefix(OPTIONAL_COMPONENT_DIRS[i], p)

Filtered ==
    /\ pc = "i18n"
    /\ opts.componentSelection.mode \in {"categories", "individual"}
    /\ rpc = "done"
    /\ ~rres.threw

FatalStages == {"download", "pages", "package"}

\* C10: a failure of stage 1, 5 or 6 raises to the caller of scaffold; the
\* failing step deletes nothing from the tree, and once scaffold has raised
\* no stage runs and the tree stays as it is.
C10_FatalStagesAbort ==
    [][ /\ (failed' \ failed) \cap FatalStages # {} =>
              /\ pc' = "raised"
              /\ DOMAIN fs.files \subseteq DOMAIN fs'.files
              /\ fs.dirs \subseteq fs'.dirs
        /\ pc = "raised" => (fs' = fs /\ log' = log /\ pc' = pc) ]_vars

\* page generation failed after writing the first of two pages
C10_Witness ==
    /\ pc = "raised"
    /\ failed = {"pages"}
    /\ opts.pages = <<N_pricing, N_about_us>>
    /\ PagePath(N_pricing) \in DOMAIN fs.files
    /\ PagePath(N_about_us) \notin DOMAIN fs.files
    /\ P_PackageJson \in DOMAIN fs.files
    /\ log = <<"download", "components", "pages">>

C12_MissingOverlayAbsorbed ==
    /\ (opts.i18n /\ ~env.i18n.exists) => "i18n" \notin failed
    /\ (~opts.demo /\ ~env.base.exists) => "demo" \notin failed

\* C13: a failure while writing the provenance record (6.5) or initializing
\* version control (7) does not abort scaffold: control passes to the next
\* stage (7, 8), and scaffold never raises with such a failure on record.
C13_BestEffortStages ==
    [][ /\ ("provenance" \in failed' \ failed) => pc' = "git"
        /\ ("git" \in failed' \ failed) => pc' = "install"
        /\ pc' = "raised" => failed' \cap {"provenance", "git"} = {} ]_vars

\* a run that returned although both best-effort stages failed
C13_Witness ==
    /\ pc = "done"
    /\ failed = {"provenance", "git"}
    /\ log[Len(log)] = "install"
    /\ P_NodeModules \in fs.dirs
    /\ P_VelocityJson \notin DOMAIN fs.files

\* the request list of a selection without the ids the registry lacks
KnownOnly(selection, registry) ==
    IF selection.mode = "individual"
    THEN [selection EXCEPT
            !.components = FilterSeq(@, DOMAIN registry.components)]
    ELSE selection

\* the registry without the dependencies on ids it does not declare
DeclaredOnly(registry) ==
    [registry EXCEPT !.components =
        [id \in DOMAIN @ |->
            [@[id] EXCEPT !.dependencies.components =
                FilterSeq(@, DOMAIN registry.components)]]]

FourLists(r) == <<r.threw, r.components, r.utilities, r.files, r.npmPackages>>

C15_NoneAndAll ==
    rpc = "done" =>
        /\ rsel.mode = "none" =>
              FourLists(rres) = <<FALSE, <<>>, <<>>, <<>>, <<>>>>
        /\ rsel.mode = "all" =>
              (~rres.threw /\ Range(rres.components) = DOMAIN rreg.components)

SameSets(r1, r2) ==
    /\ r1.threw = r2.threw
    /\ Range(r1.components) = Range(r2.components)
    /\ Range(r1.utilities) = Range(r2.utilities)
    /\ Range(r1.files) = Range(r2.files)
    /\ Range(r1.npmPackages) = Range(r2.npmPackages)

ReferencedUtilities(registry, ids) ==
    UNION {Range(registry.components[id].dependencies.utilities) : id \in ids}

\* C17: when the call returns, the file set is the union of the files of the
\* resolved modules and of the bundles they reference that the registry
\* declares, the package set is the union of the packages of those bundles,
\* and a referenced bundle the registry does not declare adds nothing.
C17_FilesAndPackages ==
    (rpc \in {"done", "again"} /\ ~rres.threw) =>
        LET ids == Range(rres.components)
            bundles == ReferencedUtilities(rreg, ids) \cap DOMAIN rreg.utilities
        IN  /\ Range(rres.utilities) = ReferencedUtilities(rreg, ids)
            /\ Range(rres.files) =
                  UNION {Range(rreg.components[id].files) : id \in ids}
                  \cup UNION {Range(rreg.utilities[u].files) : u \in bundles}
            /\ Range(rres.npmPackages) =
                  UNION {Range(rreg.utilities[u].npm) : u \in bundles}

\* contact-form alone: its bundle cn is expanded, its bundle validators is
\* not declared and adds nothing
C17_Witness ==
    /\ rpc = "done" /\ ~rres.threw
    /\ rres.components = <<"contact-form">>
    /\ rres.utilities = <<"cn", "validators">>
    /\ "validators" \notin DOMAIN rreg.utilities
    /\ rres.files = <<P_ContactForm, P_UiIndex, P_Cn>>
    /\ rres.npmPackages = <<"clsx", "tailwind-merge">>

\* what a tree holds outside the optional-module directories
FilesOutside(t) == Restrict(t.files, {p \in DOMAIN t.files : ~UnderOptionalDir(p)})
DirsOutside(t) == {q \in t.dirs : ~UnderOptionalDir(q)}

\* C18 (as claimed): stage 2 creates, deletes and changes no file and no
\* directory outside src/components/ui, patterns and hero, and in mode all
\* it leaves the whole tree as it was.
C18_OnlyOptionalDirs ==
    [][pc = "components" =>
          /\ FilesOutside(fs') = FilesOutside(fs)
          /\ DirsOutside(fs') = DirsOutside(fs)
          /\ opts.componentSelection.mode = "all" => fs' = fs]_vars

\* C18 (amended): stage 2 deletes and changes nothing outside the optional
\* directories and creates no file there; the one thing it may create is the
\* directory src/lib, when the resolved utilities include cn and the tree has
\* no such directory; in mode all it leaves the whole tree as it was.
C18_OnlyOptionalDirsAndLib ==
    [][pc = "components" =>
          /\ FilesOutside(fs') = FilesOutside(fs)
          /\ DirsOutside(fs) \subseteq DirsOutside(fs')
          /\ DirsOutside(fs') \ DirsOutside(fs) \subseteq {P_LibDir}
          /\ P_LibDir \in fs'.dirs \ fs.dirs =>
                (rpc' = "done" /\ ~rres'.threw /\ InSeq("cn", rres'.utilities))
          /\ opts.componentSelection.mode = "all" => fs' = fs]_vars

\* stage 2 filtered the optional directories of a template without src/lib
\* and created that directory
C18_Witness ==
    /\ pc = "i18n"
    /\ Filtered
    /\ P_Cn \notin DOMAIN env.template.files
    /\ P_LibDir \in fs.dirs
    /\ P_Hero \notin DOMAIN fs.files
    /\ P_Navbar \in DOMAIN fs.files

\* the route table generatePages edits in the mode of the project
ActiveTable == IF opts.i18n THEN P_I18nRoutes ELSE P_BaseRoutes

\* C19 (as claimed): a call for one page whose route identifier is the key
\* of no entry, on a route file that holds the anchor, splices exactly one
\* entry keyed by that identifier in front of the anchor and leaves the rest
\* of the text as it was.
C19_InsertsWhenNoSuchKey ==
    [][(gen'.n # gen.n /\ Len(gen'.pages) = 1) =>
          LET content == TextOf(fs, ActiveTable)
              after == TextOf(fs', ActiveTable)
              routeId == toRouteId(gen'.pages[1])
              insertPoint == indexOfAnchor(content)
          IN  (ActiveTable \in DOMAIN fs.files /\ insertPoint # 0
                 /\ ~HasKey(content, routeId))
              => /\ Len(after) = Len(content) + 1
                 /\ IsCustomEntry(after[insertPoint])
                 /\ after[insertPoint].id = routeId
                 /\ SubSeq(after, 1, insertPoint - 1) =
                       SubSeq(content, 1, insertPoint - 1)
                 /\ SubSeq(after, insertPoint + 1, Len(after)) =
                       SubSeq(content, insertPoint, Len(content))]_vars

\* the text `id:` occurs somewhere in content: id ends a word that a colon
\* follows
OccursBeforeColon(content, id) ==
    \E i \in 1..Len(content) :
        \E w \in ColonWords(content[i]) :
            Len(id) <= Len(w) /\ SubSeq(w, Len(w) - Len(id) + 1, Len(w)) = id

\* C19 (amended): a call for one page on a route file that holds the anchor
\* splices exactly one entry keyed by the page's route identifier in front
\* of the anchor when the text `<identifier>:` occurs nowhere in the file,
\* and leaves the file as it was when it occurs, be it as the key of an
\* entry, as the tail of another key or as a field name.
C19_InsertsWhenTextAbsent ==
    [][(gen'.n # gen.n /\ Len(gen'.pages) = 1) =>
          LET content == TextOf(fs, ActiveTable)
              after == TextOf(fs', ActiveTable)
              routeId == toRouteId(gen'.pages[1])
              insertPoint == indexOfAnchor(content)
          IN  (ActiveTable \in DOMAIN fs.files /\ insertPoint # 0) =>
                 IF OccursBeforeColon(content, routeId)
                 THEN after = content
                 ELSE /\ Len(after) = Len(content) + 1
                      /\ IsCustomEntry(after[insertPoint])
                      /\ after[insertPoint].id = routeId
                      /\ SubSeq(after, 1, insertPoint - 1) =
                            SubSeq(content, 1, insertPoint - 1)
                      /\ SubSeq(after, insertPoint + 1, Len(after)) =
                            SubSeq(content, insertPoint, Len(content))]_vars

\* pricing was spliced in front of the anchor by the first call, and the
\* second call, for us, left the table holding about_us as it was
C19_Witness ==
    /\ gen.n = 2 /\ gen.pages = <<N_us>> /\ ~opts.i18n
    /\ PagePath(N_us) \in DOMAIN fs.files
    /\ LET content == TextOf(fs, P_BaseRoutes)
       IN  /\ Len(content) = 4
           /\ content[2].id = <<"about", "_", "us">>
           /\ IsCustomEntry(content[3]) /\ content[3].id = <<"pricing">>
           /\ content[4] = Anchor

HasAnchor(content) == \E i \in 1..Len(content) : content[i] = Anchor

\* C20: when the route file of the project's mode does not exist or holds no
\* anchor, a generatePages call leaves it as it was (missing or with the
\* same text), runs to its end, and writes the page file of every requested
\* page.
C20_NoAnchorSkips ==
    [][(gen'.n # gen.n
          /\ (ActiveTable \notin DOMAIN fs.files
                \/ ~HasAnchor(TextOf(fs, ActiveTable)))) =>
          /\ (ActiveTable \in DOMAIN fs'.files) = (ActiveTable \in DOMAIN fs.files)
          /\ TextOf(fs', ActiveTable) = TextOf(fs, ActiveTable)
          /\ Len(gen'.generatedFiles) =
                Len(gen'.pages) * (IF opts.i18n THEN 2 ELSE 1)
          /\ \A i \in 1..Len(gen'.pages) :
                /\ PagePath(gen'.pages[i]) \in DOMAIN fs'.files
                /\ opts.i18n => LangPagePath(gen'.pages[i]) \in DOMAIN fs'.files]_vars

\* a page generated on a project whose route table has an entry and no anchor
C20_Witness ==
    /\ gen.n = 1 /\ gen.pages = <<N_pricing>> /\ ~opts.i18n
    /\ TextOf(fs, P_BaseRoutes) = <<Entry(<<"home">>, TRUE, 10, FALSE, FALSE)>>
    /\ PagePath(N_pricing) \in DOMAIN fs.files
    /\ gen.generatedFiles # <<>>

\* how many tokens of kind k in content carry the key id
KeyCount(content, k, id) ==
    Cardinality({i \in 1..Len(content) : content[i].k = k /\ content[i].id = id})

\* C21 (as claimed): after a generatePages call in multi-language mode every
\* translation file that exists holds, for every requested page, the
\* navigation-label key and the page key group exactly once, whether or not
\* the call inserted a route entry for the page.
C21_TranslationKeysAlways ==
    [][(gen'.n # gen.n /\ opts.i18n) =>
          \A i \in 1..Len(gen'.pages) : \A l \in 1..Len(Locales) :
              LET p == TranslationPath(Locales[l])
                  routeId == toRouteId(gen'.pages[i])
              IN  p \in DOMAIN fs'.files =>
                     /\ KeyCount(TextOf(fs', p), "navKey", routeId) = 1
                     /\ KeyCount(TextOf(fs', p), "group", routeId) = 1]_vars

\* the paths generatePages is to write for the list pages, in order
ExpectedFiles(pages, isI18n) ==
    [i \in 1..Len(pages) |-> <<"src", "pages", AstroFile(pages[i])>>]
    \o (IF isI18n
        THEN [i \in 1..Len(pages) |->
                <<"src", "pages", "[lang]", RestFile(toRouteId(pages[i]))>>]
        ELSE <<>>)

\* C22: a generatePages call writes src/pages/<name>.astro for every
\* requested page and, in multi-language mode, also
\* src/pages/[lang]/[...<routeId>].astro; the returned list is exactly those
\* paths; a call with no page changes nothing and returns the empty list.
C22_GeneratedFiles ==
    [][gen'.n # gen.n =>
          /\ gen'.generatedFiles = ExpectedFiles(gen'.pages, opts.i18n)
          /\ \A i \in 1..Len(gen'.generatedFiles) :
                /\ gen'.generatedFiles[i] \in DOMAIN fs'.files
                /\ fs'.files[gen'.generatedFiles[i]].src = "generated"
          /\ gen'.pages = <<>> => (fs' = fs /\ gen'.generatedFiles = <<>>)]_vars

\* two pages generated in multi-language mode: four files written and listed
C22_Witness ==
    /\ gen.n = 1 /\ opts.i18n
    /\ gen.pages = <<N_pricing, N_about_us>>
    /\ Len(gen.generatedFiles) = 4
    /\ gen.generatedFiles[4] = <<"src", "pages", "[lang]", "[...about_us].astro">>
    /\ Range(gen.generatedFiles) \subseteq DOMAIN fs.files

(***************************************************************************)
(* Properties of the front end                                             *)
(***************************************************************************)
\* a well-formed page slug
IsSlug(s) ==
    /\ s # <<>>
    /\ \A i \in 1..Len(s) : s[i] \in LowerLetters \cup Digits \cup {"-"}
    /\ s[1] # "-"
    /\ s[Len(s)] # "-"
    /\ \A i \in 1..(Len(s) - 1) : ~(s[i] = "-" /\ s[i + 1] = "-")
    /\ s \notin ReservedNames

\* C23: whatever text is typed, each slug parsePageNames returns is
\* non-empty, is made of lowercase letters, digits and hyphens only, has no
\* leading, trailing or doubled hyphen and is not a reserved name; a text
\* that is just a reserved word gives no slug, and so no generated file; the
\* route id of a slug is the slug with "_" for each "-", and its title is its
\* hyphen-separated segments, each capitalized, joined by single spaces.
C23_SlugsWellFormed ==
    cli.at = "parsed" =>
        /\ \A k \in 1..Len(cli.slugs) :
              LET slug == cli.slugs[k]
                  routeId == toRouteId(slug)
                  words == split(slug, "-")
              IN  /\ IsSlug(slug)
                  /\ Len(routeId) = Len(slug)
                  /\ \A i \in 1..Len(slug) :
                        /\ routeId[i] # "-"
                        /\ routeId[i] = "_" <=> slug[i] = "-"
                        /\ slug[i] # "-" => routeId[i] = slug[i]
                  /\ split(toTitle(slug), " ") =
                        [j \in 1..Len(words) |->
                            <<capitalize(Head(words[j]))>> \o Tail(words[j])]
        /\ ui.pageNames \in ReservedNames =>
              /\ cli.slugs = <<>>
              /\ generatePages(fs, cli.slugs, "page", FALSE,
                               NoFailure).generatedFiles = <<>>

\* a capital, a blank and a hyphen are typed: the slug is lowercase with one
\* hyphen
C23_Witness ==
    /\ cli.at = "parsed"
    /\ ui.pageNames = <<"S", " ", "-", "4">>
    /\ cli.slugs = << <<"s", "-", "4">> >>

\* the version the retrieved template carries: its manifest's, else its
\* package.json's
RetrievedVersion(template) ==
    IF P_Manifest \in DOMAIN template.files
    THEN template.files[P_Manifest].body[1].version
    ELSE template.files[P_PackageJson].body[1].version

\* C24: the template version in the provenance record of step 6.5 is the
\* version of the template step 1 retrieved, with or without a manifest.
C24_ProvenanceVersion ==
    P_VelocityJson \in DOMAIN fs.files =>
        fs.files[P_VelocityJson].body[1].templateVersion =
            RetrievedVersion(env.template)

\* the tree t2 is the tree t with the overlay o copied onto it
Overlaid(t, o, t2) ==
    /\ DOMAIN t2.files = DOMAIN t.files \cup DOMAIN o.files
    /\ \A p \in DOMAIN o.files : t2.files[p] = o.files[p]
    /\ \A p \in DOMAIN t.files \ DOMAIN o.files : t2.files[p] = t.files[p]

\* the paths demo removal deletes: DEMO_CONTENT and everything below
UnderDemoContent(p) == \E k \in 1..Len(DEMO_CONTENT) : IsPrefix(DEMO_CONTENT[k], p)

\* C26: applying an overlay puts each of its files into the working tree at
\* the same path with the overlay's content, replacing a file already there,
\* and leaves the other files of the tree as they were; and a run with
\* demo=false and i18n=true ends with the base overlay's version of every
\* path that both overlays hold.
C26_OverlayReplaces ==
    [][ /\ (pc = "i18n" /\ opts.i18n /\ env.i18n.exists) =>
              Overlaid(fs, env.i18n.tree, fs')
        /\ (pc = "demo" /\ ~opts.demo /\ env.base.exists) =>
              /\ \A p \in DOMAIN env.base.tree.files :
                    p \in DOMAIN fs'.files /\ fs'.files[p] = env.base.tree.files[p]
              /\ \A p \in DOMAIN fs.files \ DOMAIN env.base.tree.files :
                    ~UnderDemoContent(p) =>
                        p \in DOMAIN fs'.files /\ fs'.files[p] = fs.files[p]
        /\ (pc' = "done" /\ ~opts.demo /\ opts.i18n
                /\ env.i18n.exists /\ env.base.exists) =>
              \A p \in DOMAIN env.base.tree.files \cap DOMAIN env.i18n.tree.files :
                    p \in DOMAIN fs'.files /\ fs'.files[p] = env.base.tree.files[p]
      ]_vars

\* a finished run without demo and with i18n in which both overlays hold
\* src/layouts/BaseLayout.astro: the tree has the base overlay's file
C26_Witness ==
    /\ pc = "done"
    /\ ~opts.demo
    /\ opts.i18n
    /\ env.i18n.exists
    /\ env.base.exists
    /\ P_BaseLayout \in DOMAIN env.base.tree.files \cap DOMAIN env.i18n.tree.files
    /\ env.i18n.tree.files[P_BaseLayout] # env.base.tree.files[P_BaseLayout]
    /\ fs.files[P_BaseLayout] = env.base.tree.files[P_BaseLayout]

\* C27: once step 2 has run, no later stage deletes a file of an optional
\* module the selection retained: the files under src/components/hero that
\* are in the tree after step 2 (mode all, or categories with hero) are
\* still there when the run ends, with demo or without.
C27_SelectedModulesKept ==
    [][(pc \in {"i18n", "demo", "pages", "package", "provenance", "git", "install"}) =>
          \A p \in DOMAIN fs.files :
              UnderOptionalDir(p) => (p \in DOMAIN fs'.files) ]_vars

\* the directories at or below an optional-module directory
OptionalDirsOf(t) == {d \in t.dirs : UnderOptionalDir(d)}

\* C28: right after a selective filtering, every directory at or below an
\* optional-module directory holds a file somewhere below it: a directory
\* all of whose files were deleted is gone, together with each parent that
\* was left empty by that, the optional-module directory included, and
\* every directory on the path of a retained file is still there.
C28_NoEmptyDirs ==
    Filtered =>
        /\ \A d \in OptionalDirsOf(fs) :
              /\ readdirSync(fs, d) # {}
              /\ \E f \in DOMAIN fs.files : IsPrefix(d, f)
        /\ \A d \in OptionalDirsOf(env.template) :
              (\A f \in DOMAIN fs.files : ~IsPrefix(d, f)) => d \notin fs.dirs
        /\ \A f \in DOMAIN fs.files :
              UnderOptionalDir(f) => Ancestors(f) \subseteq fs.dirs

\* only hero is kept: ui/form/Input, then ui/form, then ui itself are
\* removed in the pass over src/components/ui, and hero stays
C28_Witness ==
    /\ Filtered
    /\ <<"src", "components", "ui", "form", "Input">> \in env.template.dirs
    /\ fs.dirs \cap { <<"src", "components", "ui", "form", "Input">>,
                      <<"src", "components", "ui", "form">>,
                      <<"src", "components", "ui">> } = {}
    /\ P_Hero \in DOMAIN fs.files
    /\ <<"src", "components", "hero">> \in fs.dirs

\* C29: a generatePages call changes a route table only by inserting new
\* entries at the first anchor: the text before the first anchor and the
\* text from that anchor on are what they were, so that taking the inserted
\* entries out gives the old text back, and no entry that was there is
\* changed, moved or renumbered.
C29_PureInsertion ==
    [][gen'.n # gen.n =>
          \A p \in RouteTables :
              LET old == TextOf(fs, p)
                  new == TextOf(fs', p)
                  k == Len(new) - Len(old)
              IN  /\ k >= 0
                  /\ k = 0 => new = old
                  /\ k > 0 =>
                        \E a \in 1..Len(old) :
                            /\ old[a] = Anchor
                            /\ \A j \in 1..(a - 1) : old[j] # Anchor
                            /\ SubSeq(new, 1, a - 1) = SubSeq(old, 1, a - 1)
                            /\ SubSeq(new, a + k, Len(new)) = SubSeq(old, a, Len(old))
                            /\ \A j \in a..(a + k - 1) :
                                  /\ IsCustomEntry(new[j])
                                  /\ ~HasKey(old, new[j].id)]_vars

\* a table with two anchors: the entry for pricing went in before the first
C29_Witness ==
    /\ gen.n = 1
    /\ gen.pages = <<N_pricing>>
    /\ ~opts.i18n
    /\ TextOf(fs, P_BaseRoutes) =
          <<Entry(<<"home">>, TRUE, 10, FALSE, FALSE),
            Entry(<<"pricing">>, TRUE, 50, TRUE, FALSE), Anchor,
            Entry(<<"about">>, TRUE, 40, FALSE, FALSE), Anchor>>

\* C30: every option set the front end hands to scaffold, from the prompts
\* or from --yes, has pageLayout "landing" only with demo true; so no page
\* that scaffold generates from it imports LandingLayout in a project whose
\* demo removal deletes src/layouts/LandingLayout.astro.
C30_LandingOnlyWithDemo ==
    cli.at = "scaffold" =>
        /\ opts.pageLayout = "landing" => opts.demo
        /\ \A i \in 1..Len(opts.pages) :
              generatePageTemplate(opts.pages[i],
                                   opts.pageLayout).body[1].layoutName = "LandingLayout"
                 => ~(removesDemo(opts) /\ InSeq(P_LandingLayout, DEMO_CONTENT))

\* --demo is not given, the user answers Yes, asks for pages and picks
\* LandingLayout: the option set has demo and the landing layout
C30_Witness ==
    /\ cli.at = "scaffold"
    /\ ~ui.yes
    /\ ~ui.demo.set
    /\ ui.demoAns
    /\ opts.demo
    /\ opts.pages = << <<"s">>, <<"4">> >>
    /\ opts.pageLayout = "landing"

(***************************************************************************)
(* Properties of the registry fetcher                                      *)
(***************************************************************************)
\* C25: a fetchRegistry call made while the cache holds a registry returns
\* that registry, sends no remote request and leaves the cache as it is; a
\* call made on an empty cache sends one request, and then either returns
\* the fetched registry and caches it, or throws and leaves the cache empty,
\* so that the next call tries the remote again; and a filled cache changes
\* only by clearRegistryCache, which empties it.
C25_CachedUntilCleared ==
    [][ /\ (net'.calls = net.calls + 1 /\ cachedRegistry # Null) =>
              /\ net'.returned = [kind |-> "value", value |-> cachedRegistry]
              /\ net'.requests = net.requests
              /\ cachedRegistry' = cachedRegistry
        /\ (net'.calls = net.calls + 1 /\ cachedRegistry = Null) =>
              /\ net'.requests = net.requests + 1
              /\ net'.returned.kind \in {"value", "threw"}
              /\ net'.returned.kind = "value" =>
                    cachedRegistry' = net'.returned.value
              /\ net'.returned.kind = "threw" => cachedRegistry' = Null
        /\ (cachedRegistry # Null /\ cachedRegistry' # cachedRegistry) =>
              (cachedRegistry' = Null /\ net' = net)
      ]_vars

\* a failed fetch, a fetch that succeeds, and two calls served from the cache
C25_Witness ==
    /\ net.calls = 4
    /\ net.requests = 2
    /\ cachedRegistry # Null
    /\ net.returned = [kind |-> "value", value |-> cachedRegistry]

====
